---- MODULE Spec2Model ----
(***************************************************************************)
(* Walk-forward position-trading backtester (backtester_walkforward.py)    *)
(* and its position registry (utils/position_tracker.py).                  *)
(*                                                                         *)
(* Prices are whole dollars, dates are day numbers, R-multiples are kept   *)
(* in hundredths (the ledger rounds them to 2 places) and PnL in cents.    *)
(* An optional value (Python None) is the empty sequence <<>>, a present   *)
(* value v is <<v>>.                                                       *)
(***************************************************************************)
EXTENDS Integers, Sequences, FiniteSets, TLC

VARIABLES
    universe,            \* per scan date, the TradeSpecs scanner and validator can produce
    levels,              \* price levels occurring in the price history files
    scan_dates,          \* len(scan_dates): the number of scan dates of the run
    initial_capital,     \* self.initial_capital
    history,             \* SpecLook: the price file of the ticker, one row per date or None
    last_rows,           \* per ticker, the date of the last row of a price file that ends
                         \* before the last scan date; None for a file that does not
    pc,                  \* position of run(): check/update/scan/enter/endday/eob/done
    day,                 \* the scan date being processed
    idx,                 \* index of the loop run() is in
    open_positions,      \* self.open_positions
    remaining_positions, \* local of _check_open_positions
    closed_positions,    \* local of _check_open_positions, closed_today in run()
    positions,           \* self.position_tracker.positions
    strategy_positions,  \* self.strategy_positions
    all_trades,          \* all_trades of run(): the ledger
    validated,           \* the TradeSpecs of the date, after filter_trades_by_position
    evaluated,           \* history: <<ticker, entry_date>> of positions evaluated on `day`
    skipped,             \* history: tickers filter_trades_by_position dropped on `day`
    last_eval,           \* history: inputs and outcome of the latest CheckPosition
    last_call,           \* history: the latest call of the tracker's API and its result
    mode,                \* PositionTracker.mode: "backtest" or "live"
    file                 \* the JSON file at PositionTracker.file

vars == <<universe, levels, scan_dates, initial_capital, history, last_rows, pc, day, idx, open_positions,
          remaining_positions, closed_positions, positions, strategy_positions,
          all_trades, validated, evaluated, skipped, last_eval, last_call, mode, file>>

(***************************************************************************)
(* Bounds of the model                                                     *)
(***************************************************************************)
MaxDay == 6          \* Spec: number of scan dates of the run
CapDays == 3         \* SpecCap: the same
ShortHold == 3       \* the short MaxDays a TradeSpec may carry
MaxSignals == 2      \* TradeSpecs the validator returns on one date
SignalDays == 1      \* Spec: the scanner finds signals on the first SignalDays dates
CapSignalDays == 2   \* SpecCap: the same
StaleDays == 3       \* SpecStale: number of scan dates of the run
TrailDays == 66
StaleSignalDays == 2 \* SpecStale: the scanner finds signals on the first dates
\* The capacity limits of config/trading_config.py (20 in total, 10 and 6 for the
\* two enabled strategies, 5 for an unlisted one) scaled down so that a handful of
\* tickers reaches them; the limits of 0 are kept as they are.
POSITION_MAX_TOTAL == 2
MaxRSRanker == 2
MaxHigh52 == 1
MaxUnlisted == 1
LookDays == 3        \* SpecLook: number of scan dates of the run
HistDays == 4        \* SpecLook: dates of the price file, the later ones in the future
LookWindow == 2      \* SpecLook: rows the scaled-down moving averages and ATR span
MaxSizeCalls == 3     \* SpecSize: calls of _calculate_position_size in a row
MaxCombined == 3     \* SpecPreBuy: signals run_scan_as_of returns for a date
MaxPreBuyCalls == 1  \* SpecPreBuy: calls of pre_buy_check
MaxTrackerDate == 2  \* SpecTracker: the dates entry_date, exit_date and as_of_date take

(***************************************************************************)
(* Arithmetic helpers                                                      *)
(***************************************************************************)
Abs(x) == IF x < 0 THEN 0 - x ELSE x

Max(a, b) == IF a >= b THEN a ELSE b

Min(a, b) == IF a <= b THEN a ELSE b

\* Python int(): truncation toward zero of n/d, d > 0
Trunc(n, d) == IF n >= 0 THEN n \div d ELSE 0 - ((0 - n) \div d)

\* round(n/d) to the nearest integer, ties to even, d > 0
Round(n, d) ==
    LET q == n \div d
        r == n - q * d
    IN  IF 2 * r < d THEN q
        ELSE IF 2 * r > d THEN q + 1
        ELSE IF q % 2 = 0 THEN q ELSE q + 1

None == <<>>

Some(v) == <<v>>

(***************************************************************************)
(* config/trading_config.py                                                *)
(***************************************************************************)
RS_RANKER == "RelativeStrength_Ranker_Position"
HIGH52 == "High52_Position"
BIGBASE == "BigBase_Breakout_Position"
EMA_CROSS == "EMA_Crossover_Position"
TREND_CONT == "TrendContinuation_Position"
MEAN_REV == "MeanReversion_Position"
PERCENT_B == "%B_MeanReversion_Position"
UNLISTED == "Unlisted_Position"

POSITION_RISK_PER_TRADE_PCT == 2
POSITION_MAX_DAYS_LONG == 120
POSITION_PARTIAL_ENABLED == TRUE
POSITION_PYRAMID_ENABLED == TRUE
POSITION_PYRAMID_MAX_ADDS == 3
\* R triggers in tenths of R, sizes in tenths of the position
POSITION_PYRAMID_R_TRIGGER == 15
POSITION_PYRAMID_SIZE == 5
POSITION_PARTIAL_SIZE == 3
EMA_CROSS_POS_PARTIAL_R == 20
EMA_CROSS_POS_PARTIAL_SIZE == 3
EMA_CROSS_POS_TRAIL_DAYS == 5
MR_POS_PARTIAL_R == 20
MR_POS_TRAIL_DAYS == 5
PERCENT_B_POS_PARTIAL_R == 20
PERCENT_B_POS_TRAIL_DAYS == 5
HIGH52_POS_PARTIAL_R == 25
HIGH52_POS_PARTIAL_SIZE == 3
BIGBASE_PARTIAL_R == 40
BIGBASE_PARTIAL_SIZE == 3
TREND_CONT_PARTIAL_R == 20
TREND_CONT_PARTIAL_SIZE == 3
TREND_CONT_TRAIL_DAYS == 5
RS_RANKER_PARTIAL_R == 30
RS_RANKER_PARTIAL_SIZE == 3

\* POSITION_MAX_PER_STRATEGY.get(strategy, 5)
POSITION_MAX_PER_STRATEGY(strategy) ==
    CASE strategy = RS_RANKER -> MaxRSRanker
      [] strategy = HIGH52 -> MaxHigh52
      [] strategy \in {BIGBASE, EMA_CROSS, TREND_CONT, MEAN_REV, PERCENT_B} -> 0
      [] OTHER -> MaxUnlisted

(***************************************************************************)
(* utils/position_tracker.py: PositionTracker, a dict ticker -> entry.     *)
(* An entry is [entry_date, entry_price, strategy, exit_date]; exit_date   *)
(* is the one **kwargs field is_in_position reads, None when absent.       *)
(* entry_date is stored as a pandas Timestamp, here its day number; the    *)
(* exit_date a caller passes is a Timestamp or a date string.              *)
(***************************************************************************)
Timestamp(d) == [type |-> "Timestamp", date |-> d]

\* str(...) of the Timestamp of day d
DateStr(d) == [type |-> "str", date |-> d]

\* pd.to_datetime of a Timestamp or of a date string, as a day number
to_datetime(v) == v.date

\* json.dump accepts None, numbers and strings, and raises TypeError on a Timestamp
json_serializable(opt) == opt = None \/ opt[1].type = "str"

\* self.file does not exist
NoFile == [exists |-> FALSE, valid |-> FALSE, data |-> <<>>]

\* a file json.load cannot parse: open(file, 'w') truncated it and json.dump
\* raised before the document was complete
PartialFile == [exists |-> TRUE, valid |-> FALSE, data |-> <<>>]

\* the file after _save_positions: entry_date is written as str(entry_date),
\* every other field as it is; the exception of json.dump is swallowed
save_positions(P, tracker_mode, f) ==
    IF tracker_mode # "live" THEN f
    ELSE IF \E t \in DOMAIN P : ~json_serializable(P[t].exit_date) THEN PartialFile
    ELSE [exists |-> TRUE, valid |-> TRUE,
          data |-> [t \in DOMAIN P |-> [P[t] EXCEPT !.entry_date = DateStr(@)]]]

\* self.positions after _load_positions: only entry_date is converted back;
\* any exception leaves {}
load_positions(f) ==
    IF ~f.valid THEN <<>>
    ELSE [t \in DOMAIN f.data |->
            [f.data[t] EXCEPT !.entry_date = to_datetime(@)]]

\* self.positions after PositionTracker(mode, file)
PositionTracker(tracker_mode, f) ==
    IF tracker_mode = "live" /\ f.exists THEN load_positions(f) ELSE <<>>

\* an interval check that compares as_of_date with entry_date in every case
is_in_position_from_entry(P, ticker, as_of_date) ==
    IF ticker \notin DOMAIN P THEN FALSE
    ELSE IF as_of_date = None THEN TRUE
    ELSE /\ P[ticker].entry_date <= as_of_date[1]
         /\ P[ticker].exit_date # None =>
               as_of_date[1] < to_datetime(P[ticker].exit_date[1])

\* is_in_position(ticker, as_of_date=None)
is_in_position(P, ticker, as_of_date) ==
    IF ticker \notin DOMAIN P THEN FALSE
    ELSE IF as_of_date = None THEN TRUE
    ELSE IF P[ticker].exit_date = None THEN TRUE
    ELSE /\ P[ticker].entry_date <= as_of_date[1]
         /\ as_of_date[1] < to_datetime(P[ticker].exit_date[1])

\* the return value of add_position
add_position_ok(P, ticker, as_of_date) == ~is_in_position(P, ticker, as_of_date)

\* add_position without the duplicate check
add_position_overwrite(P, ticker, entry_date, entry_price, strategy, as_of_date, exit_date) ==
    [t \in DOMAIN P \cup {ticker} |->
        IF t = ticker
        THEN [entry_date |-> entry_date, entry_price |-> entry_price,
              strategy |-> strategy, exit_date |-> exit_date]
        ELSE P[t]]

\* self.positions after add_position
add_position(P, ticker, entry_date, entry_price, strategy, as_of_date, exit_date) ==
    IF is_in_position(P, ticker, as_of_date) THEN P
    ELSE [t \in DOMAIN P \cup {ticker} |->
            IF t = ticker
            THEN [entry_date |-> entry_date, entry_price |-> entry_price,
                  strategy |-> strategy, exit_date |-> exit_date]
            ELSE P[t]]

\* self.positions after remove_position
remove_position(P, ticker) == [t \in DOMAIN P \ {ticker} |-> P[t]]

get_open_tickers(P) == DOMAIN P

\* no TradeSpec is dropped
filter_nothing(trades, P, as_of_date) == trades

\* filter_trades_by_position(trades_df, tracker, as_of_date=day)
filter_trades_by_position(trades, P, as_of_date) ==
    SelectSeq(trades, LAMBDA tr : ~is_in_position(P, tr.Ticker, as_of_date))

(***************************************************************************)
(* backtester_walkforward.py: sizing and entry                             *)
(***************************************************************************)
Get(opt, default) == IF opt = None THEN default ELSE opt[1]

\* a size without the minimum of 1 share
size_without_minimum(entry_price, stop_price) ==
    IF entry_price = stop_price THEN 0
    ELSE Trunc(initial_capital * POSITION_RISK_PER_TRADE_PCT,
               100 * Abs(entry_price - stop_price))

\* _calculate_position_size with risk_pct = POSITION_RISK_PER_TRADE_PCT
calculate_position_size(entry_price, stop_price) ==
    LET risk_per_share == Abs(entry_price - stop_price)
    IN  IF risk_per_share = 0 THEN 0
        ELSE Max(Trunc(initial_capital * POSITION_RISK_PER_TRADE_PCT,
                       100 * risk_per_share), 1)

\* the position dict _enter_position builds
NewPosition(entry_day, trade) ==
    [ticker |-> trade.Ticker,
     strategy |-> trade.Strategy,
     direction |-> Get(trade.Direction, "LONG"),
     entry_date |-> entry_day,
     entry_price |-> trade.Entry,
     stop_price |-> trade.StopLoss,
     initial_shares |-> calculate_position_size(trade.Entry, trade.StopLoss),
     current_shares |-> calculate_position_size(trade.Entry, trade.StopLoss),
     risk_amount |-> Abs(trade.Entry - trade.StopLoss),
     max_days |-> Get(trade.MaxDays, POSITION_MAX_DAYS_LONG),
     days_held |-> 0,
     highest_price |-> trade.Entry,
     partial_exited |-> FALSE,
     pyramid_adds |-> <<>>,
     closes_below_trail |-> 0]

\* an entry that never fails
enter_always(trade) == TRUE

\* the return value of _enter_position
enter_position_ok(trade) == calculate_position_size(trade.Entry, trade.StopLoss) # 0

(***************************************************************************)
(* backtester_walkforward.py: the daily evaluation of one position         *)
(***************************************************************************)
\* the signed move from entry to `price`, in the position's favour
Move(p, price) ==
    IF p.direction = "SHORT" THEN p.entry_price - price ELSE price - p.entry_price

\* max(risk_amount, 0.01), in cents
RiskDen(p) == Max(p.risk_amount * 100, 1)

\* current_r >= tenths/10
RAtLeast(p, close, tenths) == Move(p, close) * 100 * 10 >= tenths * RiskDen(p)

\* round(current_r, 2), in hundredths
current_r(p, close) == Round(Move(p, close) * 100 * 100, RiskDen(p))

\* cost basis of initial entry plus pyramid adds
RECURSIVE AddsCost(_)
AddsCost(adds) ==
    IF adds = <<>> THEN 0
    ELSE Head(adds).shares * Head(adds).price + AddsCost(Tail(adds))

RECURSIVE AddsShares(_)
AddsShares(adds) ==
    IF adds = <<>> THEN 0 ELSE Head(adds).shares + AddsShares(Tail(adds))

\* a cost basis that forgets the pyramid adds
cost_basis_initial(p) == p.initial_shares * p.entry_price

cost_basis(p) == p.initial_shares * p.entry_price + AddsCost(p.pyramid_adds)

\* a pyramid add that is recorded but whose shares are not added to the position
PyramidSharesLost(p, current_date, close, near) ==
    IF /\ RAtLeast(p, close, POSITION_PYRAMID_R_TRIGGER)
       /\ Len(p.pyramid_adds) < POSITION_PYRAMID_MAX_ADDS
       /\ ~p.partial_exited
       /\ near
    THEN [p EXCEPT !.pyramid_adds =
                      Append(@, [date |-> current_date, price |-> close,
                                 shares |-> Trunc(p.initial_shares * POSITION_PYRAMID_SIZE, 10),
                                 r_at_add |-> current_r(p, close)])]
    ELSE p

\* a pyramiding block without the limit on the number of adds
PyramidUncapped(p, current_date, close, near) ==
    IF /\ RAtLeast(p, close, POSITION_PYRAMID_R_TRIGGER)
       /\ ~p.partial_exited
       /\ near
    THEN LET add_shares == Trunc(p.initial_shares * POSITION_PYRAMID_SIZE, 10)
         IN  [p EXCEPT !.pyramid_adds =
                           Append(@, [date |-> current_date, price |-> close,
                                      shares |-> add_shares,
                                      r_at_add |-> current_r(p, close)]),
                       !.current_shares = @ + add_shares]
    ELSE p

\* the pyramiding block; `near` is len(recent_df) >= 21 and is_near_ema21
Pyramid(p, current_date, close, near) ==
    IF /\ POSITION_PYRAMID_ENABLED
       /\ RAtLeast(p, close, POSITION_PYRAMID_R_TRIGGER)
       /\ Len(p.pyramid_adds) < POSITION_PYRAMID_MAX_ADDS
       /\ ~p.partial_exited
       /\ near
    THEN LET add_shares == Trunc(p.initial_shares * POSITION_PYRAMID_SIZE, 10)
         IN  [p EXCEPT !.pyramid_adds =
                           Append(@, [date |-> current_date, price |-> close,
                                      shares |-> add_shares,
                                      r_at_add |-> current_r(p, close)]),
                       !.current_shares = @ + add_shares]
    ELSE p

\* the strategy's partial trigger in tenths of R, None for a strategy without one
PartialTrigger(strategy) ==
    CASE strategy = EMA_CROSS -> Some(EMA_CROSS_POS_PARTIAL_R)
      [] strategy = MEAN_REV -> Some(MR_POS_PARTIAL_R)
      [] strategy = PERCENT_B -> Some(PERCENT_B_POS_PARTIAL_R)
      [] strategy = HIGH52 -> Some(HIGH52_POS_PARTIAL_R)
      [] strategy = BIGBASE -> Some(BIGBASE_PARTIAL_R)
      [] strategy = TREND_CONT -> Some(TREND_CONT_PARTIAL_R)
      [] strategy = RS_RANKER -> Some(RS_RANKER_PARTIAL_R)
      [] OTHER -> None

PartialSize(strategy) ==
    CASE strategy = EMA_CROSS -> EMA_CROSS_POS_PARTIAL_SIZE
      [] strategy = HIGH52 -> HIGH52_POS_PARTIAL_SIZE
      [] strategy = BIGBASE -> BIGBASE_PARTIAL_SIZE
      [] strategy = TREND_CONT -> TREND_CONT_PARTIAL_SIZE
      [] strategy = RS_RANKER -> RS_RANKER_PARTIAL_SIZE
      [] OTHER -> POSITION_PARTIAL_SIZE

should_partial(p, close) ==
    /\ POSITION_PARTIAL_ENABLED
    /\ ~p.partial_exited
    /\ PartialTrigger(p.strategy) # None
    /\ RAtLeast(p, close, PartialTrigger(p.strategy)[1])

partial_shares(p) == Trunc(p.current_shares * PartialSize(p.strategy), 10)

\* shares * (price - avg) for a long, shares * (avg - price) for a short, in cents,
\* with avg = cost / total
PnLCents(direction, shares, price, cost, total) ==
    IF direction = "LONG"
    THEN Round(100 * shares * (price * total - cost), total)
    ELSE Round(100 * shares * (cost - price * total), total)

\* the outcome of a Partial record
PartialOutcome(pnl) == "Win"

\* the Partial record of lines 339-356
partial_result(p, current_date, close) ==
    [Date |-> p.entry_date,
     ExitDate |-> current_date,
     Ticker |-> p.ticker,
     Strategy |-> p.strategy,
     Direction |-> p.direction,
     PositionType |-> "Partial",
     Entry |-> p.entry_price,
     Exit |-> close,
     Outcome |-> PartialOutcome(PnLCents(p.direction, partial_shares(p), close,
                                         cost_basis(p), p.current_shares)),
     ExitReason |-> [kind |-> "Partial", n |-> PartialTrigger(p.strategy)[1]],
     RMultiple |-> current_r(p, close),
     Shares |-> partial_shares(p),
     PnL |-> PnLCents(p.direction, partial_shares(p), close, cost_basis(p),
                      p.current_shares),
     HoldingDays |-> p.days_held,
     PyramidAdds |-> 0]

\* a partial block that leaves the stop where it was
PartialKeepsStop(p, close) ==
    IF should_partial(p, close)
    THEN [p EXCEPT !.partial_exited = TRUE,
                   !.current_shares = @ - partial_shares(p)]
    ELSE p

\* the position after the partial block
Partial(p, close) ==
    IF should_partial(p, close)
    THEN [p EXCEPT !.partial_exited = TRUE,
                   !.current_shares = @ - partial_shares(p),
                   !.stop_price = p.entry_price]
    ELSE p

\* the outcome _close_position derives from the unrounded pnl
CloseOutcome(p, exit_price) ==
    LET total == p.initial_shares + AddsShares(p.pyramid_adds)
        gain == IF total > 0
                THEN IF p.direction = "LONG"
                     THEN p.current_shares * (exit_price * total - cost_basis(p))
                     ELSE p.current_shares * (cost_basis(p) - exit_price * total)
                ELSE 0
    IN  IF gain > 0 THEN "Win" ELSE "Loss"

\* _close_position: the record of a full exit
close_position(p, exit_date, exit_price, exit_reason, r_multiple) ==
    LET total == p.initial_shares + AddsShares(p.pyramid_adds)
    IN  [Date |-> p.entry_date,
         ExitDate |-> exit_date,
         Ticker |-> p.ticker,
         Strategy |-> p.strategy,
         Direction |-> p.direction,
         PositionType |-> "Full",
         Entry |-> p.entry_price,
         Exit |-> exit_price,
         Outcome |-> CloseOutcome(p, exit_price),
         ExitReason |-> exit_reason,
         RMultiple |-> r_multiple,
         Shares |-> p.current_shares,
         PnL |-> IF total > 0
                 THEN PnLCents(p.direction, p.current_shares, exit_price,
                               cost_basis(p), total)
                 ELSE 0,
         HoldingDays |-> p.days_held,
         PyramidAdds |-> Len(p.pyramid_adds)]

(***************************************************************************)
(* _evaluate_exit_conditions                                               *)
(***************************************************************************)
stop_hit(p, bar) ==
    \/ p.direction = "LONG" /\ bar.Low <= p.stop_price
    \/ p.direction = "SHORT" /\ bar.High >= p.stop_price

\* the recorded R-multiple of a StopLoss exit, in hundredths: the literal -1.0
StopLossR == 0 - 100

\* The strategy-specific branch of lines 424-522: the average consulted, the
\* number of closes below it that exits, and the exit reason.
TrailRule(strategy, days_held) ==
    CASE strategy = EMA_CROSS ->
            [ma |-> "MA100", need |-> EMA_CROSS_POS_TRAIL_DAYS, reason |-> "MA100_Trail"]
      [] strategy = MEAN_REV ->
            [ma |-> "MA50", need |-> MR_POS_TRAIL_DAYS, reason |-> "MA50_Trail"]
      [] strategy = PERCENT_B ->
            [ma |-> "MA50", need |-> PERCENT_B_POS_TRAIL_DAYS, reason |-> "MA50_Trail"]
      [] strategy = HIGH52 ->
            IF days_held <= 60
            THEN [ma |-> "EMA21", need |-> 5, reason |-> "EMA21_Trail_Early"]
            ELSE [ma |-> "MA100", need |-> 8, reason |-> "MA100_Trail_Late"]
      [] strategy = BIGBASE ->
            IF days_held <= 45
            THEN [ma |-> "EMA21", need |-> 5, reason |-> "EMA21_Trail_Early"]
            ELSE [ma |-> "MA200", need |-> 10, reason |-> "MA200_Trail_Late"]
      [] strategy = TREND_CONT ->
            [ma |-> "MA50", need |-> TREND_CONT_TRAIL_DAYS, reason |-> "MA50_Trail"]
      [] strategy = RS_RANKER ->
            IF days_held <= 60
            THEN [ma |-> "EMA21", need |-> 5, reason |-> "EMA21_Trail_Early"]
            ELSE [ma |-> "MA100", need |-> 8, reason |-> "MA100_Trail_Late"]
      [] OTHER -> [ma |-> "none", need |-> 0, reason |-> "none"]

\* `trail` is what the price history says of the consulted average on the date:
\* "below" (current_close < ma), "above", or "na" (the average is None or NaN).
\* pre_buy_check admits a ticker only with 60 bars up to the entry date, so
\* EMA21 and MA50 always exist; MA100 and MA200 may not.
TrailInputOK(p, trail) ==
    CASE TrailRule(p.strategy, p.days_held + 1).ma \in {"MA100", "MA200"} -> TRUE
      [] TrailRule(p.strategy, p.days_held + 1).ma \in {"EMA21", "MA50"} -> trail # "na"
      [] OTHER -> trail = "na"

\* closes_below_trail after the strategy branch
TrailCount(p, trail) ==
    IF TrailRule(p.strategy, p.days_held).ma = "none" \/ trail = "na"
    THEN p.closes_below_trail
    ELSE IF trail = "below" THEN p.closes_below_trail + 1 ELSE 0

trail_exit(p, trail) ==
    /\ TrailRule(p.strategy, p.days_held).ma # "none"
    /\ trail = "below"
    /\ TrailCount(p, trail) >= TrailRule(p.strategy, p.days_held).need

\* a time stop that ignores pyramid adds
time_stop_any(p) == p.days_held >= p.max_days

\* a time stop one date late
time_stop_late(p) == Len(p.pyramid_adds) = 0 /\ p.days_held > p.max_days

\* the time stop of lines 524-529
time_stop(p) == Len(p.pyramid_adds) = 0 /\ p.days_held >= p.max_days

\* What _evaluate_exit_conditions does to one position:
\* [pos: the position afterwards, result: the exit record or None].
evaluate_exit_conditions(p, current_date, bar, trail) ==
    IF stop_hit(p, bar)
    THEN [pos |-> p,
          result |-> Some(close_position(p, current_date, p.stop_price,
                                         [kind |-> "StopLoss", n |-> 0], StopLossR))]
    ELSE LET q == [p EXCEPT !.closes_below_trail = TrailCount(p, trail)]
         IN  IF trail_exit(p, trail)
             THEN [pos |-> q,
                   result |-> Some(close_position(q, current_date, bar.Close,
                                    [kind |-> TrailRule(p.strategy, p.days_held).reason,
                                     n |-> 0],
                                    current_r(p, bar.Close)))]
             ELSE IF time_stop(q)
             THEN [pos |-> q,
                   result |-> Some(close_position(q, current_date, bar.Close,
                                    [kind |-> "TimeStop", n |-> q.max_days],
                                    current_r(p, bar.Close)))]
             ELSE [pos |-> q, result |-> None]

\* a closing record that keeps the type _close_position gave it
Untagged(p, rec) == rec

\* `if position['partial_exited']: exit_result['PositionType'] = "Runner"`
Tagged(p, rec) == IF p.partial_exited THEN [rec EXCEPT !.PositionType = "Runner"] ELSE rec

\* an iteration that drops the position on a date without a bar
check_position_drops(p, current_date, bar, near, trail) ==
    [pos |-> [p EXCEPT !.days_held = @ + 1], records |-> <<>>, open |-> bar # None]

(***************************************************************************)
(* One iteration of the loop of _check_open_positions (lines 199-381) on   *)
(* position p: [pos, records, open], with bar = None when the date is not  *)
(* in the ticker's history.                                                *)
(***************************************************************************)
check_position(p, current_date, bar, near, trail) ==
    LET p1 == [p EXCEPT !.days_held = @ + 1]
    IN  IF bar = None
        THEN [pos |-> p1, records |-> <<>>, open |-> TRUE]
        ELSE
        LET b == bar[1]
            p2 == [p1 EXCEPT !.highest_price = Max(@, b.High)]
            p3 == Pyramid(p2, current_date, b.Close, near)
            part == IF should_partial(p3, b.Close)
                    THEN <<partial_result(p3, current_date, b.Close)>>
                    ELSE <<>>
            p4 == Partial(p3, b.Close)
            ev == evaluate_exit_conditions(p4, current_date, b, trail)
        IN  IF ev.result # None
            THEN [pos |-> ev.pos,
                  records |-> Append(part, Tagged(ev.pos, ev.result[1])),
                  open |-> FALSE]
            ELSE [pos |-> ev.pos, records |-> part, open |-> TRUE]

(***************************************************************************)
(* Inputs: the external collaborators                                      *)
(***************************************************************************)
Tickers == {"AAA", "BBB", "CCC"}

Strategies == {RS_RANKER, HIGH52, BIGBASE, EMA_CROSS, TREND_CONT, MEAN_REV,
               PERCENT_B, UNLISTED}

PriceLevels == {90, 100, 120, 130}

Capitals == {1000, 100000}

\* A TradeSpec as _enter_position reads it: Direction and MaxDays are optional
\* keys (trade.get), None when the validator's row does not carry them.
\* Entry/StopLoss: a long with 10 of risk, a short with 10 of risk, no risk.
TradeShapes ==
    {[Entry |-> 100, StopLoss |-> 90, Direction |-> None],
     [Entry |-> 120, StopLoss |-> 130, Direction |-> Some("SHORT")],
     [Entry |-> 100, StopLoss |-> 100, Direction |-> None]}

TradeSpecsOf(tks, strats, shapes, holds) ==
    {[Ticker |-> t, Strategy |-> s, Entry |-> sh.Entry, StopLoss |-> sh.StopLoss,
      Direction |-> sh.Direction, MaxDays |-> h] :
        t \in tks, s \in strats, sh \in shapes, h \in holds}

\* pre_buy_check keeps one signal per ticker (best_signal is keyed by ticker):
\* the rows of one date have pairwise different tickers.
UniqueTickers(list) ==
    \A a, b \in 1..Len(list) : a # b => list[a].Ticker # list[b].Ticker

RECURSIVE ListsUpTo(_, _)
ListsUpTo(S, n) ==
    IF n = 0 THEN {<<>>}
    ELSE LET shorter == ListsUpTo(S, n - 1)
         IN  shorter \cup {Append(l, x) : l \in {m \in shorter : Len(m) = n - 1}, x \in S}

ValidatedLists == {l \in ListsUpTo(universe[day], MaxSignals) : UniqueTickers(l)}

\* the day's bar of a ticker
Bars == {b \in [Low : levels, High : levels, Close : levels] :
            b.Low <= b.Close /\ b.Close <= b.High}

TrailInputs == {"below", "above", "na"}

\* inputs that are not read are fixed, so that each case is drawn once
InputsOK(p, bar, near, trail) ==
    IF bar = None THEN ~near /\ trail = "na" ELSE TrailInputOK(p, trail)

(***************************************************************************)
(* run()                                                                   *)
(***************************************************************************)
\* the inputs of run()
run_inputs == <<universe, levels, scan_dates, initial_capital, history, last_rows>>

\* the variables no action of run() changes: its inputs, and the mode and the
\* file of its tracker (line 99: mode "backtest", in which _save_positions
\* returns before it touches the file)
inputs == <<run_inputs, mode, file>>

\* every price file has rows up to the end of the backtest
UpToDate == [t \in Tickers |-> None]

\* a scan date that starts with the scanner
StartAtScan == "scan"

\* line 620: what run() does first on a scan date
StartOfDay == "check"

InitRun ==
    /\ pc = StartOfDay
    /\ day = 1
    /\ idx = 1
    /\ open_positions = <<>>
    /\ remaining_positions = <<>>
    /\ closed_positions = <<>>
    /\ positions = <<>>
    /\ strategy_positions = [s \in Strategies |-> 0]
    /\ all_trades = <<>>
    /\ validated = <<>>
    /\ evaluated = {}
    /\ skipped = {}
    /\ last_eval = None
    /\ last_call = None
    /\ mode = "backtest"
    /\ file = NoFile

\* Spec: one ticker through its whole lifecycle: longs and shorts, a trade without
\* risk, both holding periods, the full price range, a small and the default capital
Init ==
    /\ universe = [d \in 1..MaxDay |->
                      IF d <= SignalDays
                      THEN TradeSpecsOf({"AAA"}, {RS_RANKER, BIGBASE, UNLISTED},
                                        TradeShapes, {None, Some(ShortHold)})
                      ELSE {}]
    /\ levels = PriceLevels
    /\ scan_dates = MaxDay
    /\ initial_capital \in Capitals
    /\ history = <<>>
    /\ last_rows = UpToDate
    /\ InitRun

\* SpecCap: three tickers competing for the capacity limits: longs of every
\* strategy, with and without risk, prices at the entry or at the stop
InitCap ==
    /\ universe = [d \in 1..CapDays |->
                      IF d <= CapSignalDays
                      THEN TradeSpecsOf(Tickers, {RS_RANKER, BIGBASE, UNLISTED},
                                        {sh \in TradeShapes : sh.Direction = None},
                                        {None})
                      ELSE {}]
    /\ levels = {l \in PriceLevels : l <= 100}
    /\ scan_dates = CapDays
    /\ initial_capital = 100000
    /\ history = <<>>
    /\ last_rows = UpToDate
    /\ InitRun

\* lines 199-381: one position of the loop of _check_open_positions, given
\* what the price file says of the date
CheckStep(bar, near, trail) ==
    /\ LET r == check_position(open_positions[idx], day, bar, near, trail)
       IN  /\ open_positions' = [open_positions EXCEPT ![idx] = r.pos]
           /\ closed_positions' = closed_positions \o r.records
           /\ remaining_positions' =
                  IF r.open THEN Append(remaining_positions, r.pos)
                  ELSE remaining_positions
           /\ last_eval' = Some([before |-> open_positions[idx], bar |-> bar,
                                 records |-> r.records, open |-> r.open])
    /\ evaluated' = evaluated \cup
                      {<<open_positions[idx].ticker, open_positions[idx].entry_date>>}
    /\ idx' = idx + 1
    /\ UNCHANGED <<inputs, pc, day, positions, strategy_positions, all_trades,
                   validated, skipped, last_call>>

\* the price file of the ticker may hold a row of the date
HasRows(ticker, date) ==
    IF last_rows[ticker] = None THEN TRUE ELSE date <= last_rows[ticker][1]

\* the step with the bar and the indicators drawn when they are read
CheckPosition ==
    /\ pc = "check"
    /\ idx <= Len(open_positions)
    /\ \E bar \in {None} \cup {Some(b) : b \in Bars}, near \in BOOLEAN,
          trail \in TrailInputs :
          /\ InputsOK(open_positions[idx], bar, near, trail)
          /\ bar # None => HasRows(open_positions[idx].ticker, day)
          /\ CheckStep(bar, near, trail)

\* lines 383-385: self.open_positions = remaining_positions; return
CheckDone ==
    /\ pc = "check"
    /\ idx > Len(open_positions)
    /\ open_positions' = remaining_positions
    /\ remaining_positions' = <<>>
    /\ pc' = "update"
    /\ last_eval' = None
    /\ UNCHANGED <<inputs, day, idx, closed_positions, positions, strategy_positions,
                   all_trades, validated, evaluated, skipped, last_call>>

\* every record deregisters the ticker
RemovesAlways(rec) == TRUE

\* line 628: the records that deregister the ticker
RemovesPosition(rec) == rec.PositionType \in {"Full", "Runner"}

\* lines 625-633 over closed_today: the tracker afterwards
RECURSIVE TrackerAfter(_, _)
TrackerAfter(P, recs) ==
    IF recs = <<>> THEN P
    ELSE TrackerAfter(IF RemovesPosition(Head(recs)) /\ Head(recs).Ticker \in DOMAIN P
                      THEN remove_position(P, Head(recs).Ticker)
                      ELSE P,
                      Tail(recs))

\* strategy counters that no closing record lowers
CountsKept(S, P, recs) == S

\* lines 625-633 over closed_today: the strategy counters afterwards
RECURSIVE CountsAfter(_, _, _)
CountsAfter(S, P, recs) ==
    IF recs = <<>> THEN S
    ELSE LET rec == Head(recs)
             hit == RemovesPosition(rec) /\ rec.Ticker \in DOMAIN P
         IN  CountsAfter(IF hit
                         THEN [S EXCEPT ![rec.Strategy] = Max(0, @ - 1)]
                         ELSE S,
                         IF hit THEN remove_position(P, rec.Ticker) ELSE P,
                         Tail(recs))

\* lines 621-633: the loop over closed_today
UpdateTracker ==
    /\ pc = "update"
    /\ all_trades' = all_trades \o closed_positions
    /\ positions' = TrackerAfter(positions, closed_positions)
    /\ strategy_positions' = CountsAfter(strategy_positions, positions, closed_positions)
    /\ closed_positions' = <<>>
    /\ pc' = "scan"
    /\ UNCHANGED <<inputs, day, idx, open_positions, remaining_positions, validated,
                   evaluated, skipped, last_eval, last_call>>

\* lines 636-646: scanner, validator, filter_trades_by_position
Scan ==
    /\ pc = "scan"
    /\ \E v \in ValidatedLists :
          /\ validated' = filter_trades_by_position(v, positions, Some(day))
          /\ skipped' = {v[k].Ticker : k \in 1..Len(v)} \
                            {validated'[k].Ticker : k \in 1..Len(validated')}
    /\ idx' = 1
    /\ pc' = "enter"
    /\ UNCHANGED <<inputs, day, open_positions, remaining_positions, closed_positions,
                   positions, strategy_positions, all_trades, evaluated, last_eval,
                   last_call>>

\* a limit that admits one position too many
GlobalLimitExceeded(P) == Cardinality(DOMAIN P) > POSITION_MAX_TOTAL

\* a limit that admits one position too many
StrategyLimitExceeded(strategy_count, strategy) ==
    strategy_count > POSITION_MAX_PER_STRATEGY(strategy)

\* line 652: the global position limit
GlobalLimitReached(P) == Cardinality(DOMAIN P) >= POSITION_MAX_TOTAL

\* lines 656-663: the per-strategy limit
StrategyLimitReached(strategy_count, strategy) ==
    strategy_count >= POSITION_MAX_PER_STRATEGY(strategy)

\* lines 648-681: one TradeSpec of the date
EnterTrade ==
    /\ pc = "enter"
    /\ idx <= Len(validated)
    /\ LET trade == validated[idx]
           strategy == trade.Strategy
           strategy_count == strategy_positions[strategy]
       IN  IF GlobalLimitReached(positions)
           THEN /\ pc' = "endday"
                /\ UNCHANGED <<idx, open_positions, positions, strategy_positions>>
           ELSE IF StrategyLimitReached(strategy_count, strategy)
           THEN /\ idx' = idx + 1
                /\ UNCHANGED <<pc, open_positions, positions, strategy_positions>>
           ELSE IF enter_position_ok(trade)
           THEN /\ open_positions' = Append(open_positions, NewPosition(day, trade))
                /\ positions' = add_position(positions, trade.Ticker, day, trade.Entry,
                                             trade.Strategy, Some(day), None)
                /\ strategy_positions' =
                       [strategy_positions EXCEPT ![strategy] = strategy_count + 1]
                /\ idx' = idx + 1
                /\ UNCHANGED pc
           ELSE /\ idx' = idx + 1
                /\ UNCHANGED <<pc, open_positions, positions, strategy_positions>>
    /\ UNCHANGED <<inputs, day, remaining_positions, closed_positions, all_trades,
                   validated, evaluated, skipped, last_eval, last_call>>

\* the loop over validated is exhausted
EnterDone ==
    /\ pc = "enter"
    /\ idx > Len(validated)
    /\ pc' = "endday"
    /\ UNCHANGED <<inputs, day, idx, open_positions, remaining_positions,
                   closed_positions, positions, strategy_positions, all_trades,
                   validated, evaluated, skipped, last_eval, last_call>>

\* line 611: the next scan date
NextDay ==
    /\ pc = "endday"
    /\ day < scan_dates
    /\ day' = day + 1
    /\ pc' = StartOfDay
    /\ idx' = 1
    /\ validated' = <<>>
    /\ evaluated' = {}
    /\ skipped' = {}
    /\ UNCHANGED <<inputs, open_positions, remaining_positions, closed_positions,
                   positions, strategy_positions, all_trades, last_eval, last_call>>

\* scan_dates is exhausted
LoopEnd ==
    /\ pc = "endday"
    /\ day = scan_dates
    /\ pc' = "eob"
    /\ idx' = 1
    /\ UNCHANGED <<inputs, day, open_positions, remaining_positions, closed_positions,
                   positions, strategy_positions, all_trades, validated, evaluated,
                   skipped, last_eval, last_call>>

\* lines 689-729: one position still open at the end, given the last row of
\* the ticker's price file
CloseStep(final_price, final_date) ==
    /\ LET p == [open_positions[idx] EXCEPT
                     !.days_held = final_date - open_positions[idx].entry_date]
           rec == close_position(p, final_date, final_price,
                                 [kind |-> "EndOfBacktest", n |-> 0],
                                 current_r(p, final_price))
       IN  /\ open_positions' = [open_positions EXCEPT ![idx] = p]
           /\ all_trades' = Append(all_trades, Tagged(p, rec))
    /\ idx' = idx + 1
    /\ UNCHANGED <<inputs, pc, day, remaining_positions, closed_positions, positions,
                   strategy_positions, validated, evaluated, skipped, last_eval,
                   last_call>>

\* df.index[-1]: the dates the last row of the ticker's price file may carry
FinalDates(ticker) ==
    IF last_rows[ticker] = None THEN {day, day + 1} ELSE {last_rows[ticker][1]}

\* the step with the last row drawn when it is read (never empty for an
\* admitted ticker)
CloseRemaining ==
    /\ pc = "eob"
    /\ idx <= Len(open_positions)
    /\ \E final_price \in levels,
          final_date \in FinalDates(open_positions[idx].ticker) :
          CloseStep(final_price, final_date)

\* lines 731-738: run() returns the ledger
Finish ==
    /\ pc = "eob"
    /\ idx > Len(open_positions)
    /\ pc' = "done"
    /\ UNCHANGED <<inputs, day, idx, open_positions, remaining_positions,
                   closed_positions, positions, strategy_positions, all_trades,
                   validated, evaluated, skipped, last_eval, last_call>>

Next ==
    \/ CheckPosition
    \/ CheckDone
    \/ UpdateTracker
    \/ Scan
    \/ EnterTrade
    \/ EnterDone
    \/ NextDay
    \/ LoopEnd
    \/ CloseRemaining
    \/ Finish

Spec == Init /\ [][Next]_vars

SpecCap == InitCap /\ [][Next]_vars

\* SpecStale: two tickers, of which any may have a price file that ends before
\* the last scan date (get_historical_data keeps the rows it has when the
\* download returns nothing)
StaleFiles ==
    {f \in [Tickers -> {None} \cup {Some(d) : d \in 0..(StaleDays - 1)}] :
        f["CCC"] = None}

InitStale ==
    /\ universe = [d \in 1..StaleDays |->
                      IF d <= StaleSignalDays
                      THEN TradeSpecsOf({"AAA", "BBB"}, {RS_RANKER},
                                        {sh \in TradeShapes : sh.Direction = None},
                                        {None})
                      ELSE {}]
    /\ levels = {l \in PriceLevels : l <= 100}
    /\ scan_dates = StaleDays
    /\ initial_capital = 100000
    /\ history = <<>>
    /\ last_rows \in StaleFiles
    /\ InitRun

SpecStale == InitStale /\ [][Next]_vars

\* SpecTrail: one RS_Ranker long held through both phases of its hybrid trail on
\* quiet bars (close at the entry price: no stop, no pyramid, no partial), with
\* the close below or above the consulted average on each date
InitTrail ==
    /\ universe = [d \in 1..TrailDays |->
                      IF d = 1
                      THEN TradeSpecsOf({"AAA"}, {RS_RANKER},
                                        {sh \in TradeShapes :
                                            sh.Direction = None /\ sh.Entry # sh.StopLoss},
                                        {None})
                      ELSE {}]
    /\ levels = {100}
    /\ scan_dates = TrailDays
    /\ initial_capital = 100000
    /\ history = <<>>
    /\ last_rows = UpToDate
    /\ InitRun

SpecTrail == InitTrail /\ [][Next]_vars

(***************************************************************************)
(* SpecTracker: the API of PositionTracker called in any order, with any   *)
(* as_of_date and any exit_date field.                                     *)
(***************************************************************************)
TrackerDates == 1..MaxTrackerDate

TrackerTickers == {"AAA", "BBB"}

TrackerStrategies == {RS_RANKER}

\* the exit_date a caller passes in **kwargs
TrackerExitDates ==
    {None} \cup {Some(DateStr(d)) : d \in TrackerDates}
           \cup {Some(Timestamp(d)) : d \in TrackerDates}

\* the file when the tracker is constructed: missing, unreadable, or written by
\* an earlier tracker that held one position
TrackerFiles ==
    {NoFile, PartialFile,
     save_positions(add_position(<<>>, "AAA", 1, 100, RS_RANKER, None, None),
                    "live", NoFile)}

InitTracker ==
    /\ universe = [d \in 1..1 |-> {}]
    /\ levels = {}
    /\ scan_dates = 0
    /\ initial_capital = 100000
    /\ history = <<>>
    /\ last_rows = UpToDate
    /\ pc = "tracker"
    /\ day = 0
    /\ idx = 0
    /\ open_positions = <<>>
    /\ remaining_positions = <<>>
    /\ closed_positions = <<>>
    /\ mode \in {"backtest", "live"}
    /\ file \in TrackerFiles
    /\ positions = PositionTracker(mode, file)
    /\ strategy_positions = [s \in Strategies |-> 0]
    /\ all_trades = <<>>
    /\ validated = <<>>
    /\ evaluated = {}
    /\ skipped = {}
    /\ last_eval = None
    /\ last_call = None

\* the variables the tracker's API leaves alone
run_state == <<run_inputs, mode, pc, day, idx, open_positions, remaining_positions,
               closed_positions, strategy_positions, all_trades, validated,
               evaluated, skipped, last_eval>>

\* tracker.add_position(ticker, entry_date, entry_price, strategy, as_of_date, **kwargs)
TrackerAdd ==
    /\ pc = "tracker"
    /\ \E ticker \in TrackerTickers, entry_date \in TrackerDates,
          strategy \in TrackerStrategies,
          as_of_date \in {None} \cup {Some(d) : d \in TrackerDates},
          exit_date \in TrackerExitDates :
          /\ positions' = add_position(positions, ticker, entry_date, 100, strategy,
                                       as_of_date, exit_date)
          /\ file' = IF add_position_ok(positions, ticker, as_of_date)
                     THEN save_positions(positions', mode, file)
                     ELSE file
          /\ last_call' = Some([op |-> "add_position", ticker |-> ticker,
                                as_of_date |-> as_of_date, before |-> positions,
                                file |-> file,
                                entry |-> [entry_date |-> entry_date,
                                           entry_price |-> 100,
                                           strategy |-> strategy,
                                           exit_date |-> exit_date],
                                result |-> add_position_ok(positions, ticker,
                                                           as_of_date)])
    /\ UNCHANGED run_state

\* tracker.remove_position(ticker)
TrackerRemove ==
    /\ pc = "tracker"
    /\ \E ticker \in TrackerTickers :
          /\ positions' = remove_position(positions, ticker)
          /\ file' = IF ticker \in DOMAIN positions
                     THEN save_positions(positions', mode, file)
                     ELSE file
          /\ last_call' = Some([op |-> "remove_position", ticker |-> ticker,
                                as_of_date |-> None, before |-> positions,
                                file |-> file, entry |-> None,
                                result |-> ticker \in DOMAIN positions])
    /\ UNCHANGED run_state

\* tracker.clear_all()
TrackerClear ==
    /\ pc = "tracker"
    /\ positions' = <<>>
    /\ file' = save_positions(positions', mode, file)
    /\ last_call' = Some([op |-> "clear_all", ticker |-> "", as_of_date |-> None,
                          before |-> positions, file |-> file, entry |-> None,
                          result |-> TRUE])
    /\ UNCHANGED run_state

\* tracker.is_in_position(ticker, as_of_date)
TrackerQuery ==
    /\ pc = "tracker"
    /\ \E ticker \in TrackerTickers,
          as_of_date \in {None} \cup {Some(d) : d \in TrackerDates} :
          last_call' = Some([op |-> "is_in_position", ticker |-> ticker,
                             as_of_date |-> as_of_date, before |-> positions,
                             file |-> file, entry |-> None,
                             result |-> is_in_position(positions, ticker,
                                                       as_of_date)])
    /\ UNCHANGED <<positions, file, run_state>>

NextTracker ==
    \/ TrackerAdd
    \/ TrackerRemove
    \/ TrackerClear
    \/ TrackerQuery

SpecTracker == InitTracker /\ [][NextTracker]_vars

(***************************************************************************)
(* SpecLook: run() on one ticker whose whole price file, future rows       *)
(* included, is fixed at the start.  df is a sequence indexed by date, a   *)
(* date without a row being None.  The moving averages and the ATR are     *)
(* scaled down to the latest LookWindow rows.                              *)
(***************************************************************************)
\* the frame with all of its rows
WholeFrame(df, date) == df

\* df[df.index <= date]
UpTo(df, date) == SubSeq(df, 1, Min(date, Len(df)))

\* the rows a frame holds, oldest first
FrameRows(df) == SelectSeq(df, LAMBDA r : r # None)

\* df.tail(n)
FrameTail(rows, n) == SubSeq(rows, Max(1, Len(rows) - n + 1), Len(rows))

\* df.loc[current_date], None when current_date is not in df.index
TodayBar(df, date) == IF date \in 1..Len(df) THEN df[date] ELSE None

RECURSIVE SumClose(_)
SumClose(rows) == IF rows = <<>> THEN 0 ELSE Head(rows)[1].Close + SumClose(Tail(rows))

RECURSIVE SumRange(_)
SumRange(rows) ==
    IF rows = <<>> THEN 0
    ELSE Head(rows)[1].High - Head(rows)[1].Low + SumRange(Tail(rows))

\* recent_df: the latest rows up to the date
recent_df(df, date) == FrameTail(FrameRows(UpTo(df, date)), LookWindow)

\* lines 236-247: enough rows, and the close within one ATR of the average
is_near_ema21(df, date) ==
    LET recent == recent_df(df, date)
    IN  /\ Len(recent) >= LookWindow
        /\ Abs(recent[Len(recent)][1].Close * LookWindow - SumClose(recent))
              <= SumRange(recent)

\* lines 406-422 and the comparison of the strategy branch: the close against
\* the average of recent_df
TrailOf(df, date) ==
    LET recent == recent_df(df, date)
    IN  IF Len(recent) < LookWindow THEN "na"
        ELSE IF recent[Len(recent)][1].Close * LookWindow < SumClose(recent)
        THEN "below" ELSE "above"

\* run_scan_as_of and pre_buy_check for the ticker: a signal needs LookWindow rows
\* up to the date and a close at or above their average; the entry is the latest
\* close, the stop two ATR below it, the ATR being 2% of the close when it is 0.
LookTrades(df, date) ==
    LET recent == recent_df(df, date)
        close == recent[Len(recent)][1].Close
        atr == IF SumRange(recent) \div LookWindow = 0 THEN (close * 2) \div 100
               ELSE SumRange(recent) \div LookWindow
    IN  IF Len(recent) < LookWindow \/ TrailOf(df, date) # "above" THEN <<>>
        ELSE <<[Ticker |-> "AAA", Strategy |-> RS_RANKER, Entry |-> close,
                StopLoss |-> close - 2 * atr, Direction |-> None, MaxDays |-> None]>>

\* the rows a price file may hold on a date
LookBars ==
    {[Low |-> 90, High |-> 100, Close |-> 100], [Low |-> 100, High |-> 100, Close |-> 100],
     [Low |-> 100, High |-> 120, Close |-> 120], [Low |-> 120, High |-> 130, Close |-> 130]}

Histories == [1..HistDays -> {None} \cup {Some(b) : b \in LookBars}]

InitLook ==
    /\ universe = [d \in 1..1 |-> {}]
    /\ levels = {}
    /\ scan_dates = LookDays
    /\ initial_capital = 100000
    /\ history \in Histories
    /\ last_rows = UpToDate
    /\ InitRun

\* one position of the loop of _check_open_positions, read from the price file
LookCheck ==
    /\ pc = "check"
    /\ idx <= Len(open_positions)
    /\ CheckStep(TodayBar(history, day), is_near_ema21(history, day),
                 TrailOf(history, day))

\* lines 636-646 on the price file
LookScan ==
    /\ pc = "scan"
    /\ validated' = filter_trades_by_position(LookTrades(history, day), positions,
                                              Some(day))
    /\ skipped' = {LookTrades(history, day)[k].Ticker :
                       k \in 1..Len(LookTrades(history, day))} \
                      {validated'[k].Ticker : k \in 1..Len(validated')}
    /\ idx' = 1
    /\ pc' = "enter"
    /\ UNCHANGED <<inputs, day, open_positions, remaining_positions, closed_positions,
                   positions, strategy_positions, all_trades, evaluated, last_eval,
                   last_call>>

\* a position passed over at the end
LookCloseSkipped ==
    /\ pc = "eob"
    /\ idx <= Len(open_positions)
    /\ idx' = idx + 1
    /\ UNCHANGED <<inputs, pc, day, open_positions, remaining_positions,
                   closed_positions, positions, strategy_positions, all_trades,
                   validated, evaluated, skipped, last_eval, last_call>>

\* a close at any row of the price file
LookCloseAnyRow ==
    /\ pc = "eob"
    /\ idx <= Len(open_positions)
    /\ \E d \in 1..Len(history) :
          history[d] # None /\ CloseStep(history[d][1].Close, d)

\* lines 689-729 on the price file: final_date and final_price are its last row
LookClose ==
    /\ pc = "eob"
    /\ idx <= Len(open_positions)
    /\ LET last == CHOOSE d \in 1..Len(history) :
                       /\ history[d] # None
                       /\ \A e \in d + 1..Len(history) : history[e] = None
       IN  CloseStep(history[last][1].Close, last)

NextLook ==
    \/ LookCheck
    \/ CheckDone
    \/ UpdateTracker
    \/ LookScan
    \/ EnterTrade
    \/ EnterDone
    \/ NextDay
    \/ LoopEnd
    \/ LookClose
    \/ Finish

SpecLook == InitLook /\ [][NextLook]_vars

(***************************************************************************)
(* SpecTwice: the backtest run a second time, by a newly constructed       *)
(* WalkForwardBacktester, on the same price file; last_call keeps the      *)
(* ledger the first run returned.                                          *)
(***************************************************************************)
\* bt = WalkForwardBacktester(...); bt.run(), after a first run has returned
Rerun ==
    /\ pc = "done"
    /\ last_call = None
    /\ last_call' = Some([op |-> "run", result |-> all_trades])
    /\ pc' = StartOfDay
    /\ day' = 1
    /\ idx' = 1
    /\ open_positions' = <<>>
    /\ remaining_positions' = <<>>
    /\ closed_positions' = <<>>
    /\ positions' = <<>>
    /\ strategy_positions' = [s \in Strategies |-> 0]
    /\ all_trades' = <<>>
    /\ validated' = <<>>
    /\ evaluated' = {}
    /\ skipped' = {}
    /\ last_eval' = None
    /\ UNCHANGED inputs

NextTwice ==
    \/ NextLook
    \/ Rerun

SpecTwice == InitLook /\ [][NextTwice]_vars

(***************************************************************************)
(* SpecSize: _calculate_position_size called repeatedly on one backtester. *)
(***************************************************************************)
SizeCapitals == {100, 1000, 100000}

SizePrices == {90, 95, 99, 100}

InitSize ==
    /\ universe = [d \in 1..1 |-> {}]
    /\ levels = {}
    /\ scan_dates = 0
    /\ initial_capital \in SizeCapitals
    /\ history = <<>>
    /\ last_rows = UpToDate
    /\ pc = "size"
    /\ day = 0
    /\ idx = 0
    /\ open_positions = <<>>
    /\ remaining_positions = <<>>
    /\ closed_positions = <<>>
    /\ positions = <<>>
    /\ strategy_positions = [s \in Strategies |-> 0]
    /\ all_trades = <<>>
    /\ validated = <<>>
    /\ evaluated = {}
    /\ skipped = {}
    /\ last_eval = None
    /\ last_call = None
    /\ mode = "backtest"
    /\ file = NoFile

\* self._calculate_position_size(entry_price, stop_price); idx counts the calls
SizeCall ==
    /\ pc = "size"
    /\ idx < MaxSizeCalls
    /\ \E entry_price \in SizePrices, stop_price \in SizePrices :
          last_call' = Some([op |-> "calculate_position_size",
                             entry_price |-> entry_price,
                             stop_price |-> stop_price,
                             result |-> calculate_position_size(entry_price,
                                                                stop_price)])
    /\ idx' = idx + 1
    /\ UNCHANGED <<inputs, pc, day, open_positions, remaining_positions,
                   closed_positions, positions, strategy_positions, all_trades,
                   validated, evaluated, skipped, last_eval>>

NextSize == SizeCall

SpecSize == InitSize /\ [][NextSize]_vars

(***************************************************************************)
(* SpecPreBuy: pre_buy_check called by run() on the signals run_scan_as_of *)
(* returns for a date: one signal per ticker and strategy whose entry      *)
(* filters pass, sorted by Priority and then by Score.                     *)
(***************************************************************************)
\* trading_config.py: STRATEGY_PRIORITY, a lower number is a higher priority
STRATEGY_PRIORITY ==
    (BIGBASE :> 1) @@ (RS_RANKER :> 2) @@ (TREND_CONT :> 3) @@ (EMA_CROSS :> 4) @@
    (HIGH52 :> 5) @@ (MEAN_REV :> 6) @@ (PERCENT_B :> 7)

\* lines 216-225: the dict pre_buy_check looks strategy names up in
priority ==
    ("BB+RSI Combo" :> 7) @@ ("Mean Reversion" :> 6) @@ ("%B Mean Reversion" :> 5) @@
    ("52-Week High" :> 4) @@ ("EMA Crossover" :> 3) @@
    ("Consolidation Breakout" :> 2) @@ ("BB Squeeze" :> 1) @@
    ("Relative Strength" :> 1)

\* lines 227-231: the loop over combined_signals from signal k on; best holds
\* the values of the dict best_signal in insertion order.  priority[...] is
\* evaluated only for a ticker that is already in best_signal, and raises
\* KeyError for a name the dict does not hold.
RECURSIVE best_signal(_, _, _)
best_signal(combined_signals, k, best) ==
    IF k > Len(combined_signals) THEN [error |-> None, signals |-> best]
    ELSE LET s == combined_signals[k]
             held == {j \in 1..Len(best) : best[j].Ticker = s.Ticker}
         IN  IF held = {}
             THEN best_signal(combined_signals, k + 1, Append(best, s))
             ELSE LET j == CHOOSE j \in held : TRUE
                  IN  IF \/ s.Strategy \notin DOMAIN priority
                         \/ best[j].Strategy \notin DOMAIN priority
                      THEN [error |-> Some("KeyError"), signals |-> <<>>]
                      ELSE IF priority[s.Strategy] > priority[best[j].Strategy]
                      THEN best_signal(combined_signals, k + 1,
                                       [best EXCEPT ![j] = s])
                      ELSE best_signal(combined_signals, k + 1, best)

\* normalize_score in hundredths, for a strategy name that neither ranges nor
\* STRATEGY_METRICS holds: quality = clamp(score / 20), expectancy =
\* 0.30 * 1.5 - 0.70 * 1.0 = -0.25, final_score = quality * expectancy * 10
normalize_score(score, strategy) == 0 - ((25 * Min(Max(score, 0), 20)) \div 2)

\* lines 289-314: the row of a signal that passed the filters; get_stop_loss and
\* get_target fall back to 2.0 for a name their dicts do not hold
PreBuyTrade(s, close, atr) ==
    LET risk == IF atr = 0 THEN (close * 2) \div 100 ELSE atr
    IN  [Ticker |-> s.Ticker, Strategy |-> s.Strategy, Entry |-> close,
         StopLoss |-> close - 2 * risk, Target |-> close + 2 * (2 * risk),
         RawScore |-> s.Score, FinalScore |-> normalize_score(s.Score, s.Strategy)]

\* the orders sort_values(by="FinalScore", ascending=False) may leave rows in
SortedByFinalScore(rows) ==
    {q \in [1..Len(rows) -> {rows[k] : k \in 1..Len(rows)}] :
        /\ \A k \in 1..Len(rows) : \E j \in 1..Len(rows) : q[j] = rows[k]
        /\ \A j \in 1..(Len(rows) - 1) : q[j].FinalScore >= q[j + 1].FinalScore}

\* pre_buy_check(combined_signals, as_of_date=day): the error it raises, if
\* any, and the frames it may return.  liquid holds the tickers whose price
\* file has 60 rows up to the date and passes the liquidity filter.
pre_buy_check(combined_signals, liquid, close, atr) ==
    LET b == best_signal(combined_signals, 1, <<>>)
        kept == SelectSeq(b.signals, LAMBDA s : s.Ticker \in liquid)
        rows == [k \in 1..Len(kept) |-> PreBuyTrade(kept[k], close, atr)]
    IN  IF b.error # None THEN {[error |-> b.error, trades |-> <<>>]}
        ELSE {[error |-> None, trades |-> q] : q \in SortedByFinalScore(rows)}

PreBuyTickers == {"AAA", "BBB"}

\* the Score a signal carries
PreBuyScores == {10, 80}

\* lines 340-352, ..., 690-702: a signal run_scan_as_of appends
PreBuySignals ==
    {[Ticker |-> t, Strategy |-> st, Priority |-> STRATEGY_PRIORITY[st],
      Score |-> sc] : t \in PreBuyTickers, st \in DOMAIN STRATEGY_PRIORITY,
                      sc \in PreBuyScores}

\* lines 708-714: sort_values(by=["Priority", "Score"], ascending=[True, False])
\* may leave signal x right after signal l
SortedAfter(l, x) ==
    \/ l.Priority < x.Priority
    \/ l.Priority = x.Priority /\ l.Score >= x.Score

\* the lists of up to n signals run_scan_as_of can return: at most one signal
\* per ticker and strategy, sorted by Priority ascending and Score descending
RECURSIVE ScanLists(_)
ScanLists(n) ==
    IF n = 0 THEN {<<>>}
    ELSE LET shorter == ScanLists(n - 1)
             Following(l) == {y \in PreBuySignals :
                            /\ \A k \in 1..Len(l) :
                                  <<l[k].Ticker, l[k].Strategy>> #
                                  <<y.Ticker, y.Strategy>>
                            /\ Len(l) > 0 => SortedAfter(l[Len(l)], y)}
         IN  shorter \cup
             UNION {{Append(l, x) : x \in Following(l)} :
                       l \in {m \in shorter : Len(m) = n - 1}}

\* scanner_walkforward.py lines 705-717: what run_scan_as_of can return
ScanResults == ScanLists(MaxCombined)

InitPreBuy ==
    /\ universe = [d \in 1..1 |-> {}]
    /\ levels = {}
    /\ scan_dates = 0
    /\ initial_capital = 100000
    /\ history = <<>>
    /\ last_rows = UpToDate
    /\ pc = "prebuy"
    /\ day = 0
    /\ idx = 0
    /\ open_positions = <<>>
    /\ remaining_positions = <<>>
    /\ closed_positions = <<>>
    /\ positions = <<>>
    /\ strategy_positions = [s \in Strategies |-> 0]
    /\ all_trades = <<>>
    /\ validated = <<>>
    /\ evaluated = {}
    /\ skipped = {}
    /\ last_eval = None
    /\ last_call = None
    /\ mode = "backtest"
    /\ file = NoFile

\* the latest close and the ATR of the price files
PreBuyCloses == {100}

PreBuyATRs == {0, 5}

\* lines 636-639 of run(): signals = run_scan_as_of(day, tickers), then
\* pre_buy_check(signals, as_of_date=day) if there are any; idx counts the calls
PreBuyCheck ==
    /\ pc = "prebuy"
    /\ idx < MaxPreBuyCalls
    /\ \E combined_signals \in ScanResults \ {<<>>},
          liquid \in SUBSET PreBuyTickers,
          close \in PreBuyCloses, atr \in PreBuyATRs :
          \E r \in pre_buy_check(combined_signals, liquid, close, atr) :
              last_call' = Some([op |-> "pre_buy_check",
                                 combined_signals |-> combined_signals,
                                 liquid |-> liquid,
                                 error |-> r.error, result |-> r.trades])
    /\ idx' = idx + 1
    /\ UNCHANGED <<inputs, pc, day, open_positions, remaining_positions,
                   closed_positions, positions, strategy_positions, all_trades,
                   validated, evaluated, skipped, last_eval>>

NextPreBuy == PreBuyCheck

SpecPreBuy == InitPreBuy /\ [][NextPreBuy]_vars

(***************************************************************************)
(* Properties                                                              *)
(***************************************************************************)
\* the positions of the run that are not closed
OpenNow ==
    IF pc = "check"
    THEN {remaining_positions[k] : k \in 1..Len(remaining_positions)}
         \cup {open_positions[k] : k \in idx..Len(open_positions)}
    ELSE {open_positions[k] : k \in 1..Len(open_positions)}

\* the ledger, with the records of the date not yet appended to it
Ledger == all_trades \o closed_positions

TrailReasons == {"MA100_Trail", "MA50_Trail", "EMA21_Trail_Early", "MA100_Trail_Late",
                 "MA200_Trail_Late"}

\* C1: once the scanner runs on a date, every position opened before the date has
\* been exit-evaluated on it, the records of the date are in the ledger, and tracker
\* and strategy counters agree with the open positions; no position is
\* exit-evaluated on its entry date.
C1_ExitsBeforeEntries ==
    /\ \A e \in evaluated : e[2] < day
    /\ pc \in {"scan", "enter", "endday"} =>
          /\ closed_positions = <<>>
          /\ remaining_positions = <<>>
          /\ \A p \in OpenNow :
                p.entry_date < day => <<p.ticker, p.entry_date>> \in evaluated
          /\ \A rec \in {all_trades[k] : k \in 1..Len(all_trades)} : rec.ExitDate <= day
          /\ DOMAIN positions = {p.ticker : p \in OpenNow}
          /\ \A s \in Strategies :
                strategy_positions[s] = Cardinality({p \in OpenNow : p.strategy = s})

\* C1 witness: a TradeSpec is about to be considered on a date on which one
\* position was closed and another one was evaluated and stays open
C1_Witness ==
    /\ pc = "enter"
    /\ idx <= Len(validated)
    /\ \E k \in 1..Len(all_trades) :
          all_trades[k].ExitDate = day /\ all_trades[k].PositionType = "Full"
    /\ \E p \in OpenNow : <<p.ticker, p.entry_date>> \in evaluated

\* C2: open_positions never holds two positions of one ticker; the tickers the
\* filter dropped on a date are the open ones, and none of them is entered on it.
C2_OnePositionPerTicker ==
    /\ \A a, b \in 1..Len(open_positions) :
          a # b => open_positions[a].ticker # open_positions[b].ticker
    /\ pc \in {"enter", "endday"} =>
          /\ \A p \in OpenNow : p.entry_date = day => p.ticker \notin skipped
          /\ skipped \subseteq {p.ticker : p \in OpenNow}
          /\ \A k \in idx..Len(validated) :
                validated[k].Ticker \notin {p.ticker : p \in OpenNow}

\* C2 witness: the validator offered an open ticker, which was dropped, and
\* another ticker was entered on that date
C2_Witness ==
    /\ pc = "endday"
    /\ skipped # {}
    /\ \E p \in OpenNow : p.entry_date = day

\* C3 as claimed: add_position for a tracked ticker returns False and leaves the
\* stored entry unchanged, whatever as_of_date and the stored dates are.
C3_Original ==
    last_call # None =>
        LET c == last_call[1]
        IN  (c.op = "add_position" /\ c.ticker \in DOMAIN c.before) =>
                /\ c.result = FALSE
                /\ positions = c.before

\* as_of_date is given and lies outside the stored [entry_date, exit_date)
OutsideStoredInterval(stored, as_of_date) ==
    /\ as_of_date # None
    /\ stored.exit_date # None
    /\ ~(/\ stored.entry_date <= as_of_date[1]
         /\ as_of_date[1] < to_datetime(stored.exit_date[1]))

\* C3: add_position for a tracked ticker returns False and leaves the tracker
\* unchanged when as_of_date is omitted, the stored entry has no exit_date, or
\* entry_date <= as_of_date < exit_date; otherwise it returns True and replaces
\* the stored entry with the new one.
C3_AddToTracked ==
    last_call # None =>
        LET c == last_call[1]
        IN  (c.op = "add_position" /\ c.ticker \in DOMAIN c.before) =>
                IF OutsideStoredInterval(c.before[c.ticker], c.as_of_date)
                THEN /\ c.result = TRUE
                     /\ positions[c.ticker] = c.entry
                     /\ \A t \in DOMAIN c.before \ {c.ticker} :
                           t \in DOMAIN positions /\ positions[t] = c.before[t]
                ELSE /\ c.result = FALSE
                     /\ positions = c.before

\* C3 witness: an add for a tracked ticker, as of a date past the stored
\* exit_date, replaced an entry that differs from the new one
C3_Witness ==
    /\ last_call # None
    /\ last_call[1].op = "add_position"
    /\ last_call[1].ticker \in DOMAIN last_call[1].before
    /\ OutsideStoredInterval(last_call[1].before[last_call[1].ticker],
                             last_call[1].as_of_date)
    /\ last_call[1].before[last_call[1].ticker] # last_call[1].entry
    /\ last_call[1].result = TRUE

\* C4: never more than POSITION_MAX_TOTAL positions are open or tracked; when the
\* loop over the date's TradeSpecs is left early, the limit is reached and none
\* of the remaining TradeSpecs is entered.
C4_GlobalCap ==
    /\ Len(open_positions) <= POSITION_MAX_TOTAL
    /\ Cardinality(DOMAIN positions) <= POSITION_MAX_TOTAL
    /\ (pc = "endday" /\ idx <= Len(validated)) =>
          /\ Cardinality(OpenNow) = POSITION_MAX_TOTAL
          /\ \A k \in idx..Len(validated) :
                validated[k].Ticker \notin {p.ticker : p \in OpenNow}

\* C4 witness: the loop was left at a TradeSpec for a new ticker, with risk and
\* with room in its strategy
C4_Witness ==
    /\ pc = "endday"
    /\ idx <= Len(validated)
    /\ validated[idx].Ticker \notin DOMAIN positions
    /\ validated[idx].Entry # validated[idx].StopLoss
    /\ strategy_positions[validated[idx].Strategy]
          < POSITION_MAX_PER_STRATEGY(validated[idx].Strategy)

\* C5: never more positions of a strategy are open than the strategy's limit; a
\* TradeSpec is left out, after the whole list was gone through, only because
\* its strategy is at its limit or it has no risk.
C5_StrategyCap ==
    /\ \A s \in Strategies :
          /\ Cardinality({k \in 1..Len(open_positions) : open_positions[k].strategy = s})
                <= POSITION_MAX_PER_STRATEGY(s)
          /\ strategy_positions[s] <= POSITION_MAX_PER_STRATEGY(s)
    /\ (pc = "endday" /\ idx > Len(validated)) =>
          \A k \in 1..Len(validated) :
              \/ \E p \in OpenNow : p.ticker = validated[k].Ticker /\ p.entry_date = day
              \/ strategy_positions[validated[k].Strategy]
                    >= POSITION_MAX_PER_STRATEGY(validated[k].Strategy)
              \/ validated[k].Entry = validated[k].StopLoss

\* C5 witness: the first TradeSpec of the date was skipped at its strategy's
\* limit, the second one, of another strategy, was entered
C5_Witness ==
    /\ pc = "endday"
    /\ Len(validated) = 2
    /\ idx = 3
    /\ validated[1].Ticker \notin DOMAIN positions
    /\ validated[1].Entry # validated[1].StopLoss
    /\ validated[1].Strategy # validated[2].Strategy
    /\ strategy_positions[validated[1].Strategy]
          >= POSITION_MAX_PER_STRATEGY(validated[1].Strategy)
    /\ \E p \in OpenNow : p.ticker = validated[2].Ticker /\ p.entry_date = day

\* the shares the Partial records of position p closed
RECURSIVE PartialSharesOf(_, _)
PartialSharesOf(p, recs) ==
    IF recs = <<>> THEN 0
    ELSE (IF /\ Head(recs).PositionType = "Partial"
             /\ Head(recs).Ticker = p.ticker
             /\ Head(recs).Date = p.entry_date
          THEN Head(recs).Shares ELSE 0) + PartialSharesOf(p, Tail(recs))

\* C6: every position holds current_shares >= 0, equal to initial_shares plus the
\* shares of its pyramid adds minus the shares of its Partial record.
C6_ShareBalance ==
    \A p \in OpenNow :
        /\ p.current_shares >= 0
        /\ p.current_shares =
              p.initial_shares + AddsShares(p.pyramid_adds) - PartialSharesOf(p, Ledger)

\* C6 witness: a position that has a pyramid add and a partial exit, both with shares
C6_Witness ==
    \E p \in OpenNow :
        /\ AddsShares(p.pyramid_adds) > 0
        /\ PartialSharesOf(p, Ledger) > 0

\* C7: no TimeStop record belongs to a pyramided position; the closing record of
\* a pyramided position is a StopLoss, a trailing stop or EndOfBacktest.
C7_NoTimeStopPyramided ==
    \A k \in 1..Len(Ledger) :
        LET rec == Ledger[k]
        IN  /\ rec.ExitReason.kind = "TimeStop" => rec.PyramidAdds = 0
            /\ (rec.PositionType \in {"Full", "Runner"} /\ rec.PyramidAdds > 0) =>
                  rec.ExitReason.kind \in {"StopLoss", "EndOfBacktest"} \cup TrailReasons

\* C7 witness: a pyramided position was evaluated on a bar with days_held at or
\* past max_days and stays open
C7_Witness ==
    /\ last_eval # None
    /\ last_eval[1].bar # None
    /\ last_eval[1].open
    /\ open_positions[idx - 1].pyramid_adds # <<>>
    /\ open_positions[idx - 1].days_held >= open_positions[idx - 1].max_days

\* C8 as claimed: a position without pyramid adds never remains open after the
\* exit evaluation of a date on which its days_held is max_days or more.
C8_Original ==
    pc \in {"update", "scan", "enter", "endday"} =>
        \A p \in OpenNow : ~(p.pyramid_adds = <<>> /\ p.days_held >= p.max_days)

\* C8: a position evaluated on a date that has a bar for its ticker, with
\* days_held at or past max_days and no pyramid add up to and including that date,
\* is closed on that date: by StopLoss, by a trailing stop, or else at the close
\* with TimeStop_{max_days}d.  On a date without a bar it stays open, no record.
C8_TimeStop ==
    last_eval # None =>
        LET e == last_eval[1]
            q == open_positions[idx - 1]
        IN  IF e.bar = None
            THEN e.open /\ e.records = <<>>
            ELSE (q.pyramid_adds = <<>> /\ q.days_held >= q.max_days) =>
                    /\ ~e.open
                    /\ e.records # <<>>
                    /\ LET rec == e.records[Len(e.records)]
                       IN  /\ rec.PositionType \in {"Full", "Runner"}
                           /\ rec.ExitDate = day
                           /\ \/ rec.ExitReason.kind = "StopLoss"
                              \/ rec.ExitReason.kind \in TrailReasons
                              \/ /\ rec.ExitReason = [kind |-> "TimeStop", n |-> q.max_days]
                                 /\ rec.Exit = e.bar[1].Close

\* C8 witness: a TimeStop record of a position held longer than max_days, its
\* days_held having reached max_days on a date without a bar
C8_Witness ==
    \E k \in 1..Len(Ledger) :
        /\ Ledger[k].ExitReason.kind = "TimeStop"
        /\ Ledger[k].HoldingDays > Ledger[k].ExitReason.n

\* C9 as claimed: every ledger record has Outcome "Win" if and only if its PnL
\* is > 0, and "Loss" otherwise.
C9_Original ==
    \A k \in 1..Len(Ledger) :
        /\ Ledger[k].Outcome \in {"Win", "Loss"}
        /\ Ledger[k].Outcome = "Win" <=> Ledger[k].PnL > 0

\* C10 as claimed: the RMultiple of every record is the signed move from entry
\* to the record's exit price over the risk per share fixed at entry, rounded
\* to two places.
C10_Original ==
    /\ last_eval # None =>
          \A k \in 1..Len(last_eval[1].records) :
              LET rec == last_eval[1].records[k]
                  before == last_eval[1].before
                  move == IF rec.Direction = "SHORT" THEN rec.Entry - rec.Exit
                          ELSE rec.Exit - rec.Entry
              IN  rec.RMultiple = Round(move * 100 * 100, before.risk_amount * 100)
    /\ (pc = "eob" /\ idx > 1) =>
          LET rec == all_trades[Len(all_trades)]
              move == IF rec.Direction = "SHORT" THEN rec.Entry - rec.Exit
                      ELSE rec.Exit - rec.Entry
          IN  rec.RMultiple =
                  Round(move * 100 * 100, open_positions[idx - 1].risk_amount * 100)

\* the records of the ledger that belong to the position of record rec
RecordsOf(rec) ==
    {k \in 1..Len(Ledger) : Ledger[k].Ticker = rec.Ticker /\ Ledger[k].Date = rec.Date}

\* the position whose closing record is the last one of the ledger
JustClosed ==
    IF pc = "check" /\ last_eval # None /\ ~last_eval[1].open
    THEN Some(open_positions[idx - 1])
    ELSE IF pc = "eob" /\ idx > 1 THEN Some(open_positions[idx - 1])
    ELSE None

\* C11: the closing record of a position without pyramid adds that took a partial
\* exit is tagged Runner, the ledger holds exactly two records of the position,
\* the Partial before the Runner, and their Shares add up to initial_shares.
C11_PartialThenRunner ==
    /\ \A k \in 1..Len(Ledger) :
          (/\ Ledger[k].PositionType \in {"Full", "Runner"}
           /\ Ledger[k].PyramidAdds = 0
           /\ \E j \in RecordsOf(Ledger[k]) : Ledger[j].PositionType = "Partial") =>
              /\ Ledger[k].PositionType = "Runner"
              /\ Cardinality(RecordsOf(Ledger[k])) = 2
              /\ \E j \in RecordsOf(Ledger[k]) :
                    j < k /\ Ledger[j].PositionType = "Partial"
    /\ (JustClosed # None /\ JustClosed[1].partial_exited
           /\ JustClosed[1].pyramid_adds = <<>>) =>
          LET rec == Ledger[Len(Ledger)]
          IN  /\ rec.PositionType = "Runner"
              /\ \E j \in RecordsOf(rec) :
                    /\ Ledger[j].PositionType = "Partial"
                    /\ Ledger[j].Shares + rec.Shares = JustClosed[1].initial_shares

\* C11 witness: a position without pyramid adds closed on a date after its
\* partial exit, both records with shares
C11_Witness ==
    /\ JustClosed # None
    /\ JustClosed[1].pyramid_adds = <<>>
    /\ \E j \in RecordsOf(Ledger[Len(Ledger)]) :
          /\ Ledger[j].PositionType = "Partial"
          /\ Ledger[j].Shares > 0
          /\ Ledger[j].ExitDate < Ledger[Len(Ledger)].ExitDate
    /\ Ledger[Len(Ledger)].Shares > 0

\* C12: with a stop distance > 0 the size is the floor of
\* initial_capital * risk_pct / 100 / distance, or 1 when that floor is 0; with
\* a stop distance of 0 it is 0; the same arguments give the same size at
\* every call.
C12_PositionSize ==
    (last_call # None /\ last_call[1].op = "calculate_position_size") =>
        LET c == last_call[1]
            distance == IF c.entry_price >= c.stop_price
                        THEN c.entry_price - c.stop_price
                        ELSE c.stop_price - c.entry_price
            risk == initial_capital * POSITION_RISK_PER_TRADE_PCT
        IN  IF distance = 0 THEN c.result = 0
            ELSE \/ /\ c.result >= 1
                    /\ c.result * distance * 100 <= risk
                    /\ risk < (c.result + 1) * distance * 100
                 \/ /\ c.result = 1
                    /\ risk < distance * 100

\* C12 witness: entry 100, stop 95, capital 100,000 gives 400 shares, at a call
\* that is not the first one
C12_Witness ==
    /\ last_call # None
    /\ last_call[1].op = "calculate_position_size"
    /\ idx > 1
    /\ initial_capital = 100000
    /\ last_call[1].entry_price = 100
    /\ last_call[1].stop_price = 95
    /\ last_call[1].result = 400

\* C13: a TradeSpec with Entry = StopLoss that reaches _enter_position (neither
\* limit is reached) opens no position, registers nothing, leaves the strategy
\* counters unchanged, and the loop goes on to the next TradeSpec.
C13_ZeroRiskRejected ==
    [][(/\ pc = "enter"
        /\ idx <= Len(validated)
        /\ validated[idx].Entry = validated[idx].StopLoss
        /\ Cardinality(DOMAIN positions) < POSITION_MAX_TOTAL
        /\ strategy_positions[validated[idx].Strategy]
              < POSITION_MAX_PER_STRATEGY(validated[idx].Strategy)) =>
            /\ open_positions' = open_positions
            /\ positions' = positions
            /\ strategy_positions' = strategy_positions
            /\ pc' = "enter"
            /\ idx' = idx + 1]_vars

\* C13 witness: the first TradeSpec of the date had no risk and room in its
\* strategy and was not entered; the second one was entered
C13_Witness ==
    /\ pc = "endday"
    /\ Len(validated) = 2
    /\ idx = 3
    /\ validated[1].Entry = validated[1].StopLoss
    /\ POSITION_MAX_PER_STRATEGY(validated[1].Strategy) > 0
    /\ validated[1].Ticker \notin DOMAIN positions
    /\ \A p \in OpenNow : p.ticker # validated[1].Ticker
    /\ \E p \in OpenNow : p.ticker = validated[2].Ticker /\ p.entry_date = day

\* two price files with the same rows up to the date
AgreeUpTo(df1, df2, date) ==
    /\ Len(df1) = Len(df2)
    /\ \A d \in 1..Min(date, Len(df1)) : df1[d] = df2[d]

\* C14: the exit, pyramid and partial decision taken on a position at a date, and
\* the TradeSpecs admitted at the date, are the same for every price file that
\* has the same rows up to the date.
C14_NoLookAhead ==
    history # <<>> =>
        \A other \in Histories :
            AgreeUpTo(other, history, day) =>
                /\ (pc = "check" /\ last_eval # None) =>
                      LET r == check_position(last_eval[1].before, day,
                                              TodayBar(other, day),
                                              is_near_ema21(other, day),
                                              TrailOf(other, day))
                      IN  /\ r.pos = open_positions[idx - 1]
                          /\ r.records = last_eval[1].records
                          /\ r.open = last_eval[1].open
                /\ (pc = "enter" /\ idx = 1) =>
                      validated = filter_trades_by_position(LookTrades(other, day),
                                                            positions, Some(day))

\* C14 witness: a position was closed on a date whose next row is a bar that
\* would not have hit the stop
C14_Witness ==
    /\ history # <<>>
    /\ pc = "check"
    /\ last_eval # None
    /\ ~last_eval[1].open
    /\ history[day + 1] # None
    /\ history[day + 1] # history[day]

TerminalsOf(ticker, entry_date) ==
    {k \in 1..Len(Ledger) : /\ Ledger[k].Ticker = ticker
                            /\ Ledger[k].Date = entry_date
                            /\ Ledger[k].PositionType \in {"Full", "Runner"}}

\* the close of the last row of the price file
LastClose ==
    LET last == CHOOSE d \in 1..Len(history) :
                    history[d] # None /\ \A e \in d + 1..Len(history) : history[e] = None
    IN  history[last][1].Close

\* C16: a position has no closing record while it is open and exactly one from
\* the step that closes it on; no position has two; a position still open after
\* the last scan date gets one EndOfBacktest record at the last close of its
\* price file.
C16_OneTerminalRecord ==
    /\ \A k \in 1..Len(Ledger) :
          Ledger[k].PositionType \in {"Full", "Runner"} =>
              TerminalsOf(Ledger[k].Ticker, Ledger[k].Date) = {k}
    /\ pc \in {"check", "update", "scan", "enter", "endday"} =>
          \A p \in OpenNow : TerminalsOf(p.ticker, p.entry_date) = {}
    /\ (pc = "check" /\ last_eval # None /\ ~last_eval[1].open) =>
          TerminalsOf(last_eval[1].before.ticker, last_eval[1].before.entry_date)
              = {Len(Ledger)}
    /\ pc \in {"eob", "done"} =>
          \A j \in 1..Len(open_positions) :
              (pc = "done" \/ j < idx) =>
                  \E k \in 1..Len(Ledger) :
                      /\ TerminalsOf(open_positions[j].ticker,
                                     open_positions[j].entry_date) = {k}
                      /\ Ledger[k].ExitReason.kind = "EndOfBacktest"
                      /\ history # <<>> => Ledger[k].Exit = LastClose

\* C16 witness: the run has returned; one position was closed during the loop
\* and a later one of the same ticker at the end
C16_Witness ==
    /\ pc = "done"
    /\ open_positions # <<>>
    /\ \E k \in 1..Len(Ledger) :
          /\ Ledger[k].PositionType \in {"Full", "Runner"}
          /\ Ledger[k].ExitReason.kind # "EndOfBacktest"

\* the tickers whose closing record of the date is not yet processed by run()
ClosedToday ==
    {closed_positions[k].Ticker : k \in {j \in 1..Len(closed_positions) :
        closed_positions[j].PositionType \in {"Full", "Runner"}}}

\* C17 as claimed: a ticker is tracked exactly while it has a position without
\* a closing record (Full or Runner) in the ledger run() has appended to.
C17_Original ==
    pc \in {"scan", "enter", "endday", "eob", "done"} =>
        \A t \in Tickers :
            t \in DOMAIN positions <=>
                \E k \in 1..Len(open_positions) :
                    /\ open_positions[k].ticker = t
                    /\ TerminalsOf(t, open_positions[k].entry_date) = {}

\* C17: a ticker whose position took a partial exit stays tracked and counted;
\* during the loop over the scan dates a ticker is tracked exactly until run()
\* has processed its position's Full or Runner record; the records of the forced
\* close at the end of the backtest deregister nothing.
C17_TrackerRemoval ==
    /\ \A p \in OpenNow :
          p.partial_exited =>
              p.ticker \in DOMAIN positions /\ strategy_positions[p.strategy] >= 1
    /\ DOMAIN positions =
          IF pc = "check" THEN {open_positions[k].ticker : k \in 1..Len(open_positions)}
          ELSE IF pc = "update" THEN {p.ticker : p \in OpenNow} \cup ClosedToday
          ELSE {open_positions[k].ticker : k \in 1..Len(open_positions)}
    /\ \A s \in Strategies :
          strategy_positions[s] =
              Cardinality({t \in DOMAIN positions : positions[t].strategy = s})

\* C17 witness: after the records of the date were processed, a position that
\* took its partial exit on the date is tracked and counted
C17_Witness ==
    /\ pc = "scan"
    /\ \E p \in OpenNow :
          /\ p.partial_exited
          /\ \E k \in 1..Len(all_trades) :
                /\ all_trades[k].PositionType = "Partial"
                /\ all_trades[k].Ticker = p.ticker
                /\ all_trades[k].ExitDate = day
          /\ p.ticker \in DOMAIN positions
          /\ strategy_positions[p.strategy] = 1

\* C18 as claimed: with a date the answer is True exactly when the ticker is
\* tracked and entry_date <= as_of_date < exit_date, a missing exit_date lifting
\* only the upper bound; without a date exactly when the ticker is tracked.
C18_Original ==
    last_call # None =>
        LET c == last_call[1]
        IN  c.op = "is_in_position" =>
                c.result =
                    /\ c.ticker \in DOMAIN c.before
                    /\ \/ c.as_of_date = None
                       \/ /\ c.before[c.ticker].entry_date <= c.as_of_date[1]
                          /\ \/ c.before[c.ticker].exit_date = None
                             \/ c.as_of_date[1] < to_datetime(c.before[c.ticker].exit_date[1])

\* C18: is_in_position returns True exactly when the ticker is tracked and
\* as_of_date is omitted, or the stored entry has no exit_date (whatever its
\* entry_date), or entry_date <= as_of_date < exit_date; it changes nothing.
C18_IsInPosition ==
    last_call # None =>
        LET c == last_call[1]
        IN  c.op = "is_in_position" =>
                /\ positions = c.before
                /\ c.result =
                      /\ c.ticker \in DOMAIN c.before
                      /\ \/ c.as_of_date = None
                         \/ c.before[c.ticker].exit_date = None
                         \/ /\ c.before[c.ticker].entry_date <= c.as_of_date[1]
                            /\ c.as_of_date[1] <
                                  to_datetime(c.before[c.ticker].exit_date[1])

\* C18 witness: a query as of a date before the entry_date of an entry without
\* exit_date answered True
C18_Witness ==
    /\ last_call # None
    /\ last_call[1].op = "is_in_position"
    /\ last_call[1].ticker \in DOMAIN positions
    /\ last_call[1].as_of_date # None
    /\ positions[last_call[1].ticker].exit_date = None
    /\ last_call[1].as_of_date[1] < positions[last_call[1].ticker].entry_date
    /\ last_call[1].result = TRUE

\* the calls of the tracker's API that change the registry
Mutations == {"add_position", "remove_position", "clear_all"}

\* C19 as claimed: in live mode, after add_position, remove_position or
\* clear_all a tracker constructed from the file holds the registry of the
\* tracker that made the call, extra fields included; in backtest mode the call
\* leaves the file as it was.
C19_Original ==
    last_call # None =>
        LET c == last_call[1]
        IN  c.op \in Mutations =>
                IF mode = "live"
                THEN PositionTracker("live", file) = positions
                ELSE file = c.file

\* C19, what holds: in backtest mode no call changes the file; in live mode a
\* call that changed the registry, all of whose exit_date fields are strings
\* or absent, leaves a file from which the same registry is loaded, and one
\* that left a Timestamp in an exit_date field leaves an unreadable file.
C19_SerializableRoundTrip ==
    last_call # None =>
        LET c == last_call[1]
        IN  c.op \in Mutations =>
                IF mode # "live" THEN file = c.file
                ELSE IF positions = c.before /\ c.op # "clear_all" THEN file = c.file
                ELSE IF \A t \in DOMAIN positions :
                            json_serializable(positions[t].exit_date)
                     THEN PositionTracker("live", file) = positions
                     ELSE file = PartialFile

\* the signals of a call for a ticker
SignalsFor(c, t) ==
    {c.combined_signals[k] : k \in {j \in 1..Len(c.combined_signals) :
                                        c.combined_signals[j].Ticker = t}}

\* C20 as claimed: pre_buy_check completes without an error for the strategy
\* names run_scan_as_of emits, and returns at most one TradeSpec per ticker,
\* that of the ticker's signal with the highest priority.
C20_Original ==
    last_call # None =>
        LET c == last_call[1]
        IN  c.op = "pre_buy_check" =>
                /\ c.error = None
                /\ \A j, k \in 1..Len(c.result) :
                      c.result[j].Ticker = c.result[k].Ticker => j = k
                /\ \A k \in 1..Len(c.result) :
                      \A s \in SignalsFor(c, c.result[k].Ticker) :
                          STRATEGY_PRIORITY[c.result[k].Strategy] <=
                              STRATEGY_PRIORITY[s.Strategy]

\* C20, what holds: pre_buy_check raises KeyError exactly when two of the
\* signals have the same ticker; otherwise it returns one TradeSpec for every
\* ticker that has a signal and passes the data filters.
C20_KeyErrorOnSecondSignal ==
    last_call # None =>
        LET c == last_call[1]
        IN  c.op = "pre_buy_check" =>
                /\ c.error # None <=>
                      \E t \in PreBuyTickers : Cardinality(SignalsFor(c, t)) >= 2
                /\ c.error = None =>
                      /\ {c.result[k].Ticker : k \in 1..Len(c.result)} =
                            {t \in c.liquid : SignalsFor(c, t) # {}}
                      /\ \A j, k \in 1..Len(c.result) :
                            c.result[j].Ticker = c.result[k].Ticker => j = k

\* C21 as claimed: no record of the ledger, EndOfBacktest records included,
\* carries an ExitDate earlier than that of a record before it.
C21_Original ==
    \A j, k \in 1..Len(all_trades) :
        j < k => all_trades[j].ExitDate <= all_trades[k].ExitDate

\* C21, what holds: run() only appends to the ledger
C21_AppendOnly ==
    [][/\ Len(all_trades') >= Len(all_trades)
       /\ SubSeq(all_trades', 1, Len(all_trades)) = all_trades]_vars

\* C21, what holds: the records appended in the loop over the scan dates are
\* ordered by ExitDate
C21_OrderedInLoop ==
    pc \notin {"eob", "done"} =>
        \A j, k \in 1..Len(all_trades) :
            j < k => all_trades[j].ExitDate <= all_trades[k].ExitDate

\* C22 as claimed: when run() has returned, no position is left in
\* open_positions and the tracker holds no ticker.
C22_Original ==
    pc = "done" => open_positions = <<>> /\ DOMAIN positions = {}

\* C22, what holds: when run() has returned, every position left in
\* open_positions has its EndOfBacktest record in the ledger and is still
\* registered and counted.
C22_ClosedButRegistered ==
    pc = "done" =>
        /\ \A k \in 1..Len(open_positions) :
              /\ open_positions[k].ticker \in DOMAIN positions
              /\ \E j \in 1..Len(all_trades) :
                    /\ all_trades[j].ExitReason.kind = "EndOfBacktest"
                    /\ all_trades[j].Ticker = open_positions[k].ticker
                    /\ all_trades[j].Date = open_positions[k].entry_date
        /\ DOMAIN positions = {open_positions[k].ticker : k \in 1..Len(open_positions)}

\* the position of the last evaluation, as the loop left it
LastEvaluated == open_positions[idx - 1]

\* C23 as claimed: when the bar of a date breaches the stop a position had at
\* the start of the date, the position is closed on that date at that stop with
\* ExitReason StopLoss and Outcome Loss, and the date gives it no pyramid add
\* and no Partial record.
C23_Original ==
    (/\ last_eval # None
     /\ last_eval[1].bar # None
     /\ stop_hit(last_eval[1].before, last_eval[1].bar[1]))
    => /\ ~last_eval[1].open
       /\ Len(last_eval[1].records) = 1
       /\ last_eval[1].records[1].ExitReason.kind = "StopLoss"
       /\ last_eval[1].records[1].ExitDate = day
       /\ last_eval[1].records[1].Exit = last_eval[1].before.stop_price
       /\ last_eval[1].records[1].Outcome = "Loss"
       /\ LastEvaluated.pyramid_adds = last_eval[1].before.pyramid_adds

\* C23, what holds: when the bar of a date breaches the stop a position had at
\* the start of the date, the position is closed on that date with ExitReason
\* StopLoss and Outcome Loss, at the stop the partial block left in force, after
\* the pyramid add and the Partial record of the date, if any.
C23_StopAfterPyramidAndPartial ==
    (/\ last_eval # None
     /\ last_eval[1].bar # None
     /\ stop_hit(last_eval[1].before, last_eval[1].bar[1]))
    => LET recs == last_eval[1].records
           last == recs[Len(recs)]
       IN  /\ ~last_eval[1].open
           /\ Len(recs) \in {1, 2}
           /\ last.ExitReason.kind = "StopLoss"
           /\ last.ExitDate = day
           /\ last.Exit = LastEvaluated.stop_price
           /\ last.Outcome = "Loss"
           /\ Len(recs) = 2 => /\ recs[1].PositionType = "Partial"
                                /\ last.Exit = LastEvaluated.entry_price

\* the records of a late-phase exit of a hybrid trail
LateTrailReasons == {"MA100_Trail_Late", "MA200_Trail_Late"}

\* C24 as claimed, for the late phase of a hybrid strategy: the closes that
\* fire a late-phase trailing exit are all closes of the late phase, so the
\* last `need` dates up to the exit all lie in the late phase.
C24_Original ==
    \A j \in 1..Len(Ledger) :
        LET rec == Ledger[j]
            need == TrailRule(rec.Strategy, rec.HoldingDays).need
        IN  rec.ExitReason.kind \in LateTrailReasons =>
                \A h \in (rec.HoldingDays - need + 1)..rec.HoldingDays :
                    /\ h >= 1
                    /\ TrailRule(rec.Strategy, h).reason = rec.ExitReason.kind

\* C24, what holds: one counter serves both phases. An evaluation leaves it
\* unchanged, adds one to it or sets it to 0, and a trailing-stop record is
\* written only by an evaluation that added one and reached the number the
\* phase of the date requires.
C24_SharedCounter ==
    (last_eval # None /\ last_eval[1].bar # None) =>
        LET before == last_eval[1].before
            recs == last_eval[1].records
            after == LastEvaluated.closes_below_trail
        IN  /\ after \in {before.closes_below_trail, before.closes_below_trail + 1, 0}
            /\ \A k \in 1..Len(recs) :
                  recs[k].ExitReason.kind \in TrailReasons =>
                      /\ after = before.closes_below_trail + 1
                      /\ after >= TrailRule(before.strategy, before.days_held + 1).need
                      /\ recs[k].ExitReason.kind =
                             TrailRule(before.strategy, before.days_held + 1).reason

\* C25: every position has at most POSITION_PYRAMID_MAX_ADDS pyramid adds, at
\* most one per date; every add was appended at an unrealized R of at least
\* POSITION_PYRAMID_R_TRIGGER and has floor(POSITION_PYRAMID_SIZE *
\* initial_shares) shares; and the evaluation of a position that is already
\* partial_exited appends none.
C25_PyramidAdds ==
    /\ \A k \in 1..Len(open_positions) :
          LET p == open_positions[k]
              adds == p.pyramid_adds
          IN  /\ Len(adds) <= POSITION_PYRAMID_MAX_ADDS
              /\ \A a, b \in 1..Len(adds) : a < b => adds[a].date < adds[b].date
              /\ \A a \in 1..Len(adds) :
                    /\ RAtLeast(p, adds[a].price, POSITION_PYRAMID_R_TRIGGER)
                    /\ adds[a].r_at_add * 10 >= (POSITION_PYRAMID_R_TRIGGER * 100) - 5
                    /\ adds[a].shares * 10 <= POSITION_PYRAMID_SIZE * p.initial_shares
                    /\ (adds[a].shares + 1) * 10 > POSITION_PYRAMID_SIZE * p.initial_shares
                    /\ adds[a].date > p.entry_date
    /\ last_eval # None =>
          LET before == last_eval[1].before
              grown == Len(LastEvaluated.pyramid_adds) - Len(before.pyramid_adds)
          IN  /\ grown \in {0, 1}
              /\ SubSeq(LastEvaluated.pyramid_adds, 1, Len(before.pyramid_adds)) =
                     before.pyramid_adds
              /\ before.partial_exited => grown = 0
              /\ grown = 1 => LastEvaluated.pyramid_adds[Len(before.pyramid_adds) + 1].date = day

\* an evaluation at an unrealized R above the trigger, near EMA21 or not, of a
\* position that already has POSITION_PYRAMID_MAX_ADDS adds: none is appended
C25_Witness ==
    /\ last_eval # None
    /\ last_eval[1].bar # None
    /\ Len(last_eval[1].before.pyramid_adds) = POSITION_PYRAMID_MAX_ADDS
    /\ RAtLeast(last_eval[1].before, last_eval[1].bar[1].Close, POSITION_PYRAMID_R_TRIGGER)
    /\ last_eval[1].before.initial_shares > 2

\* the last evaluation wrote a Partial record
PartialWritten ==
    /\ last_eval # None
    /\ last_eval[1].records # <<>>
    /\ last_eval[1].records[1].PositionType = "Partial"

\* C26 as claimed, the partial exit: an evaluation that writes a Partial record
\* leaves the position open.
C26_Original == PartialWritten => last_eval[1].open

\* what the records of the ledger and the evaluation just made say of the
\* lifecycle
C26_Records ==
    /\ \A k \in 1..Len(Ledger) :
          /\ Ledger[k].PositionType = "Partial" =>
                \A j \in RecordsOf(Ledger[k]) :
                    Ledger[j].PositionType = "Partial" => j = k
          /\ Ledger[k].PositionType \in {"Full", "Runner"} =>
                \A j \in RecordsOf(Ledger[k]) : j <= k
    /\ pc = "check" =>
          /\ \A k \in idx..Len(open_positions) :
                TerminalsOf(open_positions[k].ticker, open_positions[k].entry_date) = {}
          /\ \A k \in 1..Len(remaining_positions) :
                TerminalsOf(remaining_positions[k].ticker,
                            remaining_positions[k].entry_date) = {}
    /\ PartialWritten =>
          /\ ~last_eval[1].before.partial_exited
          /\ LastEvaluated.partial_exited
          /\ LastEvaluated.stop_price = LastEvaluated.entry_price
          /\ IF last_eval[1].open
             THEN /\ Len(last_eval[1].records) = 1
                  /\ remaining_positions[Len(remaining_positions)] = LastEvaluated
             ELSE /\ Len(last_eval[1].records) = 2
                  /\ last_eval[1].records[2].PositionType = "Runner"
                  /\ last_eval[1].records[2].ExitDate = last_eval[1].records[1].ExitDate

\* no step of run() takes partial_exited of a position back to false
C26_Step ==
    \A k \in 1..Len(open_positions) :
        \A j \in 1..Len(open_positions') :
            (/\ open_positions[k].ticker = open_positions'[j].ticker
             /\ open_positions[k].entry_date = open_positions'[j].entry_date
             /\ open_positions[k].partial_exited)
            => open_positions'[j].partial_exited

\* C26: partial_exited never goes back to false; a position has at most one
\* Partial record; the evaluation that writes it sets stop_price to the entry
\* price and keeps the position open unless the exit check of the same date
\* closes it, with a Runner record after the Partial one; a position with a
\* Full or Runner record is not evaluated again and that record is its last.
C26_Lifecycle == [](C26_Records) /\ [][C26_Step]_vars

\* C26 witness: a date on which a position takes its partial exit and is closed
\* as Runner by the exit check that follows
C26_Witness ==
    /\ PartialWritten
    /\ ~last_eval[1].open
    /\ last_eval[1].records[1].Shares > 0
    /\ last_eval[1].records[2].Shares > 0

\* C27 as claimed: HoldingDays of every record is the number of scan dates
\* from the entry date of the position to the date the record was emitted on.
C27_Original ==
    \A k \in 1..Len(Ledger) :
        Ledger[k].HoldingDays =
            (IF Ledger[k].ExitReason.kind = "EndOfBacktest"
             THEN scan_dates ELSE Ledger[k].ExitDate) - Ledger[k].Date

\* C27, what holds: inside the scan-date loop days_held is the number of scan
\* dates since entry, bar or no bar, and so is HoldingDays of every record the
\* loop emits.
C27_DaysHeldInLoop ==
    /\ \A k \in 1..Len(Ledger) :
          Ledger[k].ExitReason.kind # "EndOfBacktest" =>
              Ledger[k].HoldingDays = Ledger[k].ExitDate - Ledger[k].Date
    /\ pc \in {"check", "update", "scan", "enter", "endday"} =>
          /\ \A k \in 1..Len(open_positions) :
                open_positions[k].days_held =
                    (IF pc = "check" /\ k >= idx THEN day - 1 ELSE day)
                        - open_positions[k].entry_date
          /\ \A k \in 1..Len(remaining_positions) :
                remaining_positions[k].days_held = day - remaining_positions[k].entry_date

\* a position entered on or after the date of the last row of its ticker's
\* price file: no scan date after its entry has a bar
NeverABar(p) ==
    /\ last_rows[p.ticker] # None
    /\ last_rows[p.ticker][1] <= p.entry_date

\* C28: the evaluation of a position on a date without a bar keeps it open,
\* adds 1 to days_held, changes no other field and writes no record, and the
\* loop goes on to the other positions: after the loop every position that was
\* open has been evaluated. A position that never has a bar therefore stays as
\* it was entered, registered in the tracker and counted for its strategy,
\* without a record, up to the end of the loop.
C28_NoBarFrame ==
    /\ (last_eval # None /\ last_eval[1].bar = None) =>
          /\ last_eval[1].open
          /\ last_eval[1].records = <<>>
          /\ LastEvaluated = [last_eval[1].before EXCEPT !.days_held = @ + 1]
          /\ remaining_positions[Len(remaining_positions)] = LastEvaluated
          /\ LastEvaluated.ticker \in DOMAIN positions
          /\ strategy_positions[LastEvaluated.strategy] >= 1
    /\ pc = "update" =>
          Cardinality(evaluated) =
              Cardinality({k \in 1..Len(open_positions) : open_positions[k].entry_date < day})
              + Cardinality({k \in 1..Len(closed_positions) :
                                closed_positions[k].PositionType \in {"Full", "Runner"}})
    /\ pc \in {"check", "update", "scan", "enter", "endday"} =>
          \A p \in OpenNow :
              NeverABar(p) =>
                  /\ \E trade \in universe[p.entry_date] :
                        /\ [p EXCEPT !.days_held = 0] = NewPosition(p.entry_date, trade)
                        /\ p.ticker \in DOMAIN positions
                        /\ positions[p.ticker] =
                               [entry_date |-> p.entry_date, entry_price |-> trade.Entry,
                                strategy |-> trade.Strategy, exit_date |-> None]
                  /\ strategy_positions[p.strategy] >= 1
                  /\ \A k \in 1..Len(Ledger) :
                        ~(Ledger[k].Ticker = p.ticker /\ Ledger[k].Date = p.entry_date)

\* C28 witness: on one date a position whose ticker has no bar was passed over,
\* two dates after its entry, and the next position of the loop was evaluated
\* on its bar
C28_Witness ==
    /\ pc = "check"
    /\ idx = 3
    /\ last_eval # None
    /\ last_eval[1].bar # None
    /\ Len(remaining_positions) >= 1
    /\ NeverABar(remaining_positions[1])
    /\ remaining_positions[1].days_held = 2

\* the ledger records of a position, in ledger order
LedgerOf(p) ==
    SelectSeq(Ledger, LAMBDA rec : rec.Ticker = p.ticker /\ rec.Date = p.entry_date)

\* the sum of PnL over records, in cents
RECURSIVE SumPnL(_)
SumPnL(recs) == IF recs = <<>> THEN 0 ELSE Head(recs).PnL + SumPnL(Tail(recs))

\* the sum of shares closed times exit price over records, in dollars
RECURSIVE Proceeds(_)
Proceeds(recs) ==
    IF recs = <<>> THEN 0 ELSE Head(recs).Shares * Head(recs).Exit + Proceeds(Tail(recs))

\* initial_shares times entry price plus the pyramid shares times their add
\* prices, in dollars
TotalCost(p) ==
    p.initial_shares * p.entry_price
    + AddsCost(p.pyramid_adds)

C30_EndOfDaySync ==
    pc = "endday" =>
        /\ get_open_tickers(positions) =
               {open_positions[k].ticker : k \in 1..Len(open_positions)}
        /\ Cardinality(DOMAIN positions) = Len(open_positions)
        /\ \A s \in Strategies :
              strategy_positions[s] =
                  Cardinality({k \in 1..Len(open_positions) : open_positions[k].strategy = s})

\* C30 witness: the end of a scan date on which one position was closed and
\* another entered, with two positions open
C30_Witness ==
    /\ pc = "endday"
    /\ Len(open_positions) >= 2
    /\ \E k \in 1..Len(open_positions) : open_positions[k].entry_date = day
    /\ \E k \in 1..Len(all_trades) :
          all_trades[k].ExitDate = day /\ all_trades[k].PositionType = "Full"

====
